---- MODULE Spec2Model ----
(***************************************************************************)
(* A model of the file-handling tool server (src/servers/filehandler.py):  *)
(* the bounded directory searches search_drive and quick_search, the       *)
(* scans find_duplicates, monitor_directory and file_stats, the plain-text *)
(* tools read_file and list_files, and the tools that change files         *)
(* (write_file, create_directory, copy_file, rename_file, backup_file,     *)
(* cleanup_temp_files), over a filesystem whose paths and names are        *)
(* character strings (tuples of one-character strings), so that the        *)
(* string arithmetic of the code (replace, count, lower, fnmatch) is       *)
(* computed as the code computes it; and of the chat UI (src/app.py): the  *)
(* sessions of a browser session, their messages, and the runs of the      *)
(* script that the events of the page start.                               *)
(***************************************************************************)
EXTENDS Integers, Sequences, FiniteSets, TLC

VARIABLES
    platform,     \* "posix" or "nt": decides os.sep, os.path.normcase, the root
    cwd,          \* os.getcwd(), a path string
    req,          \* the tool call in progress: its name and arguments
    pc,           \* position of the call: "idle", a loop position, "done"
    stack,        \* os.walk's pending frames: [top, dirs, i]
    files,        \* the file list of the directory os.walk yielded last
    idx,          \* position in the list the current loop iterates
    roots,        \* quick_search: the search paths still to visit
    found_items,  \* accumulator of the searches
    count,        \* number of items counted so far
    groups,       \* find_duplicates: file_hashes, in insertion order
    now,          \* the wall clock, in milliseconds
    start_time,   \* time.time() read at the start of the request
    scanned,      \* history: the directories listed so far by this call
    aborted,      \* history: "none", or why a loop was left early
    result,       \* the value the tool returned (NoResult while running)
    history,      \* the results of the earlier calls of this behaviour
    disk,         \* the filesystem: the entry of every node that exists
    other,        \* the locals of a second call that runs concurrently
    session_state,\* the chat UI: st.session_state of the browser session
    sessions_db,  \* the chat UI: the rows of the table sessions of sessions.db
    script        \* the chat UI: where the run of the script stands

\* the variables of the chat UI, and those of the tool server
chat == << session_state, sessions_db, script >>

server == << platform, cwd, req, pc, stack, files, idx, roots, found_items, count,
             groups, now, start_time, scanned, aborted, result, disk, other >>

vars == << server, history, chat >>

-----------------------------------------------------------------------------
(* Bounds of the model *)

MaxResults == 2
MaxDepthArg == 2
MaxClock == 15000
ClockStep == 4998

-----------------------------------------------------------------------------
(* Character strings *)

\* str.lower() on one character
LowerChar(c) ==
    LET UpperChars == <<"A", "B", "C", "D", "E", "F", "G", "H", "I", "J", "K", "L", "M",
                        "N", "O", "P", "Q", "R", "S", "T", "U", "V", "W", "X", "Y", "Z">>
        LowerChars == <<"a", "b", "c", "d", "e", "f", "g", "h", "i", "j", "k", "l", "m",
                        "n", "o", "p", "q", "r", "s", "t", "u", "v", "w", "x", "y", "z">>
    IN IF \E i \in 1..Len(UpperChars) : UpperChars[i] = c
       THEN LowerChars[CHOOSE i \in 1..Len(UpperChars) : UpperChars[i] = c]
       ELSE c

\* str.lower()
Lower(s) == [i \in 1..Len(s) |-> LowerChar(s[i])]

\* s.startswith(p)
StartsWith(s, p) == Len(p) <= Len(s) /\ SubSeq(s, 1, Len(p)) = p

\* s.endswith(p)
EndsWith(s, p) == Len(p) <= Len(s) /\ SubSeq(s, Len(s) - Len(p) + 1, Len(s)) = p

\* p in s  (substring test)
Contains(s, p) ==
    \E i \in 0..(Len(s) - Len(p)) : SubSeq(s, i + 1, i + Len(p)) = p

\* s.count(c) for a single character c
RECURSIVE CountChar(_, _)
CountChar(s, c) ==
    IF s = <<>> THEN 0
    ELSE (IF Head(s) = c THEN 1 ELSE 0) + CountChar(Tail(s), c)

\* s.replace(old, ''): every non-overlapping occurrence, left to right
RECURSIVE RemoveAll(_, _)
RemoveAll(s, old) ==
    IF s = <<>> \/ old = <<>> THEN s
    ELSE IF StartsWith(s, old)
         THEN RemoveAll(SubSeq(s, Len(old) + 1, Len(s)), old)
         ELSE <<Head(s)>> \o RemoveAll(Tail(s), old)

\* a faulty variant of the slice: the whole list
Take_All(s, n) == s

\* s[:n]
Take(s, n) == SubSeq(s, 1, IF n < Len(s) THEN n ELSE Len(s))

\* round(x, 2) of a time in seconds, on milliseconds
Round2(ms) == ((ms + 5) \div 10) * 10

-----------------------------------------------------------------------------
(* Paths: os.sep, os.path.join, os.path.abspath, os.path.normcase *)

Sep(plat) == IF plat = "nt" THEN "\\" ELSE "/"

\* the root directory: "/" or "C:\"
RootStr(plat) == IF plat = "nt" THEN <<"C", ":", "\\">> ELSE <<"/">>

IsAbs(plat, p) == StartsWith(p, RootStr(plat))

\* os.path.join(a, b)
Join(plat, a, b) ==
    IF IsAbs(plat, b) THEN b
    ELSE IF a = <<>> \/ a[Len(a)] = Sep(plat) THEN a \o b
    ELSE a \o <<Sep(plat)>> \o b

\* the components of p between separators, empty ones included
RECURSIVE SplitSep(_, _, _)
SplitSep(p, sep, cur) ==
    IF p = <<>> THEN <<cur>>
    ELSE IF Head(p) = sep THEN <<cur>> \o SplitSep(Tail(p), sep, <<>>)
    ELSE SplitSep(Tail(p), sep, Append(cur, Head(p)))

\* normpath's pass over the components: "" and "." dropped, ".." pops
RECURSIVE NormComps(_, _)
NormComps(comps, acc) ==
    IF comps = <<>> THEN acc
    ELSE LET c == Head(comps) IN
         IF c = <<>> \/ c = <<".">> THEN NormComps(Tail(comps), acc)
         ELSE IF c = <<".", ".">>
              THEN NormComps(Tail(comps),
                             IF acc = <<>> THEN acc ELSE SubSeq(acc, 1, Len(acc) - 1))
              ELSE NormComps(Tail(comps), Append(acc, c))

\* the directory names from the root down to the absolute path p
NodeOf(plat, p) ==
    NormComps(SplitSep(SubSeq(p, Len(RootStr(plat)) + 1, Len(p)), Sep(plat), <<>>), <<>>)

\* the path string of a node
RECURSIVE PathStr(_, _)
PathStr(plat, node) ==
    IF node = <<>> THEN RootStr(plat)
    ELSE Join(plat, PathStr(plat, SubSeq(node, 1, Len(node) - 1)), node[Len(node)])

\* os.path.abspath(p) in working directory wd
Abspath(plat, wd, p) == PathStr(plat, NodeOf(plat, Join(plat, wd, p)))

\* os.path.normcase(s)
Normcase(plat, s) ==
    IF plat = "nt"
    THEN [i \in 1..Len(s) |-> IF s[i] = "/" THEN "\\" ELSE LowerChar(s[i])]
    ELSE s

-----------------------------------------------------------------------------
(* The string literals of the source *)

skip_dirs ==
    { <<"S", "y", "s", "t", "e", "m", " ", "V", "o", "l", "u", "m", "e", " ", "I", "n", "f", "o", "r", "m", "a", "t", "i", "o", "n">>,
      <<"$", "R", "e", "c", "y", "c", "l", "e", ".", "B", "i", "n">>,
      <<"W", "i", "n", "d", "o", "w", "s">>,
      <<"P", "r", "o", "g", "r", "a", "m", " ", "F", "i", "l", "e", "s">>,
      <<"P", "r", "o", "g", "r", "a", "m", " ", "F", "i", "l", "e", "s", " ", "(", "x", "8", "6", ")">>,
      <<"A", "p", "p", "D", "a", "t", "a">>,
      <<"P", "r", "o", "g", "r", "a", "m", "D", "a", "t", "a">>,
      <<"R", "e", "c", "o", "v", "e", "r", "y">>,
      <<"p", "a", "g", "e", "f", "i", "l", "e", ".", "s", "y", "s">>,
      <<"h", "i", "b", "e", "r", "f", "i", "l", ".", "s", "y", "s">>,
      <<"s", "w", "a", "p", "f", "i", "l", "e", ".", "s", "y", "s">>,
      <<".", "g", "i", "t">>,
      <<"n", "o", "d", "e", "_", "m", "o", "d", "u", "l", "e", "s">>,
      <<"_", "_", "p", "y", "c", "a", "c", "h", "e", "_", "_">> }

quick_skip_dirs ==
    { <<"_", "_", "p", "y", "c", "a", "c", "h", "e", "_", "_">>,
      <<"n", "o", "d", "e", "_", "m", "o", "d", "u", "l", "e", "s">> }


-----------------------------------------------------------------------------
(* The filesystem the calls run against.  It is not changed by any call of  *)
(* this model.  A node is the tuple of names from the root down.            *)

\* the strings of the model: the names of the files and directories of the
\* tree (the first five are the directories quick_search looks for under the
\* home directory), then the search patterns the calls are made with
Nm ==
    [ Documents |-> <<"D", "o", "c", "u", "m", "e", "n", "t", "s">>,
      Desktop |-> <<"D", "e", "s", "k", "t", "o", "p">>,
      Downloads |-> <<"D", "o", "w", "n", "l", "o", "a", "d", "s">>,
      Pictures |-> <<"P", "i", "c", "t", "u", "r", "e", "s">>,
      Videos |-> <<"V", "i", "d", "e", "o", "s">>,
      a |-> <<"a">>,
      b |-> <<"b">>,
      h |-> <<"h">>,
      w |-> <<"w">>,
      zz |-> <<"z", "z">>,
      tmp |-> <<"t", "m", "p">>,
      git |-> <<".", "g", "i", "t">>,
      node_modules |-> <<"n", "o", "d", "e", "_", "m", "o", "d", "u", "l", "e", "s">>,
      a_txt |-> <<"a", ".", "t", "x", "t">>,
      x_txt |-> <<"x", ".", "t", "x", "t">>,
      d_txt |-> <<"d", ".", "t", "x", "t">>,
      g_txt |-> <<"g", ".", "t", "x", "t">>,
      m_txt |-> <<"m", ".", "t", "x", "t">>,
      r_txt |-> <<"r", ".", "t", "x", "t">>,
      R_TXT |-> <<"R", ".", "T", "X", "T">>,
      n_txt |-> <<"n", ".", "t", "x", "t">>,
      t_log |-> <<"t", ".", "l", "o", "g">>,
      pagefile_sys |-> <<"p", "a", "g", "e", "f", "i", "l", "e", ".", "s", "y", "s">>,
      big_bin |-> <<"b", "i", "g", ".", "b", "i", "n">>,
      old_bin |-> <<"o", "l", "d", ".", "b", "i", "n">>,
      a_tx |-> <<"a", ".", "t", "x">>,
      myconfig_json |-> <<"m", "y", "c", "o", "n", "f", "i", "g", ".", "j", "s", "o", "n">>,
      old_tmp |-> <<"o", "l", "d", ".", "t", "m", "p">>,
      new_tmp |-> <<"n", "e", "w", ".", "t", "m", "p">>,
      old_txt |-> <<"o", "l", "d", ".", "t", "x", "t">>,
      OLD_LOG |-> <<"O", "L", "D", ".", "L", "O", "G">>,
      locked_bak |-> <<"l", "o", "c", "k", "e", "d", ".", "b", "a", "k">>,
      d_tmp |-> <<"d", ".", "t", "m", "p">>,
      in_tmp |-> <<"i", "n", ".", "t", "m", "p">>,
      Windows |-> <<"W", "i", "n", "d", "o", "w", "s">>,
      Temp |-> <<"T", "e", "m", "p">>,
      AppData |-> <<"A", "p", "p", "D", "a", "t", "a">>,
      Local |-> <<"L", "o", "c", "a", "l">>,
      pat_txt |-> <<"*", ".", "t", "x", "t">>,
      pat_a |-> <<"a">>,
      pat_zz |-> <<"z", "z">>,
      pat_config |-> <<"c", "o", "n", "f", "i", "g">>,
      p |-> <<"p">>,
      q |-> <<"q">>,
      lock |-> <<"l", "o", "c", "k">>,
      big |-> <<"b", "i", "g">>,
      twin |-> <<"t", "w", "i", "n">>,
      wide |-> <<"w", "i", "d", "e">> ]

\* n names in listing order: the letter followed by the three digits of 1..n
Numbered(letter, n) ==
    LET Digit == <<"0", "1", "2", "3", "4", "5", "6", "7", "8", "9">>
    IN  [ i \in 1..n |-> << letter, Digit[(i \div 100) + 1], Digit[((i \div 10) % 10) + 1],
                           Digit[(i % 10) + 1] >> ]

Listing(d, f) == [dirs |-> d, files |-> f]

\* the directories and what a listing of each yields, in listing order
DirNodes ==
    { <<>>, <<Nm.a>>, <<Nm.a, Nm.a>>, <<Nm.a, Nm.a, Nm.b>>, <<Nm.a, Nm.git>>,
      <<Nm.a, Nm.node_modules>>, <<Nm.h>>, <<Nm.h, Nm.Documents>>,
      <<Nm.h, Nm.Documents, Nm.w>>, <<Nm.h, Nm.Desktop>>, <<Nm.tmp>> }
    \cup { <<Nm.a, Nm.node_modules>> \o n :
             n \in { <<Nm.p>>, <<Nm.p, Nm.lock>>, <<Nm.p, Nm.b>>, <<Nm.q>>, <<Nm.q, Nm.b>>,
                     <<Nm.big>>, <<Nm.twin>>, <<Nm.wide>>, <<Nm.wide, Nm.a>> } }
    \cup { <<Nm.a, Nm.node_modules, Nm.wide, Numbered("c", 100)[i]>> : i \in 1..100 }

DirTable(node) ==
    CASE node = <<>>                      -> Listing(<<Nm.a, Nm.h, Nm.tmp>>, <<>>)
      [] node = <<Nm.a>>                   -> Listing(<<Nm.a, Nm.git, Nm.node_modules>>,
                                                     <<Nm.a_txt, Nm.pagefile_sys>>)
      [] node = <<Nm.a, Nm.a>>              -> Listing(<<Nm.b>>, <<Nm.x_txt>>)
      [] node = <<Nm.a, Nm.a, Nm.b>>         -> Listing(<<>>, <<Nm.d_txt>>)
      [] node = <<Nm.a, Nm.git>>            -> Listing(<<>>, <<Nm.g_txt>>)
      [] node = <<Nm.a, Nm.node_modules>>   ->
             Listing(<<Nm.p, Nm.q, Nm.big, Nm.twin, Nm.wide>>, <<Nm.m_txt>>)
      \* p and q are alike but for the directory lock and the file x.txt of p
      [] node = <<Nm.a, Nm.node_modules, Nm.p>> ->
             Listing(<<Nm.lock, Nm.b>>, <<Nm.d_txt, Nm.x_txt, Nm.g_txt>>)
      [] node = <<Nm.a, Nm.node_modules, Nm.p, Nm.lock>> -> Listing(<<>>, <<Nm.a_txt>>)
      [] node = <<Nm.a, Nm.node_modules, Nm.p, Nm.b>> -> Listing(<<>>, <<Nm.a_txt>>)
      [] node = <<Nm.a, Nm.node_modules, Nm.q>> ->
             Listing(<<Nm.b>>, <<Nm.d_txt, Nm.g_txt>>)
      [] node = <<Nm.a, Nm.node_modules, Nm.q, Nm.b>> -> Listing(<<>>, <<Nm.a_txt>>)
      \* big holds 101 files, twin the same files but for x.txt
      [] node = <<Nm.a, Nm.node_modules, Nm.big>> ->
             Listing(<<>>, <<Nm.x_txt, Nm.d_txt>> \o Numbered("f", 98) \o <<Nm.a_txt>>)
      [] node = <<Nm.a, Nm.node_modules, Nm.twin>> ->
             Listing(<<>>, <<Nm.d_txt>> \o Numbered("f", 98) \o <<Nm.a_txt>>)
      \* wide holds 101 directories, which are empty
      [] node = <<Nm.a, Nm.node_modules, Nm.wide>> ->
             Listing(Numbered("c", 100) \o <<Nm.a>>, <<>>)
      [] node = <<Nm.h>>                   -> Listing(<<Nm.Documents, Nm.Desktop>>, <<>>)
      [] node = <<Nm.h, Nm.Documents>>      -> Listing(<<Nm.w>>, <<Nm.r_txt, Nm.R_TXT>>)
      [] node = <<Nm.h, Nm.Documents, Nm.w>> -> Listing(<<>>, <<Nm.n_txt>>)
      [] node = <<Nm.h, Nm.Desktop>>        -> Listing(<<>>, <<Nm.node_modules, Nm.big_bin, Nm.old_bin>>)
      [] node = <<Nm.tmp>>                 -> Listing(<<>>, <<Nm.t_log>>)
      [] OTHER                            -> Listing(<<>>, <<>>)

\* directories whose listing is refused (PermissionError)
LockedDirs == { <<Nm.a, Nm.node_modules>>, <<Nm.a, Nm.node_modules, Nm.p, Nm.lock>> }

\* the files of the tree
FileNodes ==
    UNION { { d \o <<DirTable(d).files[i]>> : i \in 1..Len(DirTable(d).files) } : d \in DirNodes }

\* file contents are abstract values 1..5; each has a length (os.path.getsize)
\* and an MD5 digest.  Contents 1 and 3 differ and have the same digest (an
\* MD5 collision); content 4 is one byte above the size ceiling.
SizeOf(c) ==
    CASE c = 1 -> 3
      [] c = 2 -> 5
      [] c = 3 -> 3
      [] c = 4 -> 104857601
      [] OTHER -> 0

\* hashlib.md5 of the whole content, as hexdigest
Md5(c) ==
    CASE c = 1 -> "d1"
      [] c = 2 -> "d2"
      [] c = 3 -> "d1"
      [] c = 4 -> "d4"
      [] OTHER -> "d5"

\* the content of each file
ContentOf(node) ==
    CASE node \in { <<Nm.a, Nm.a_txt>>, <<Nm.a, Nm.a, Nm.x_txt>>, <<Nm.a, Nm.a, Nm.b, Nm.d_txt>> } -> 1
      [] node \in { <<Nm.a, Nm.pagefile_sys>>, <<Nm.a, Nm.node_modules, Nm.m_txt>>,
                    <<Nm.h, Nm.Documents, Nm.r_txt>>, <<Nm.h, Nm.Documents, Nm.R_TXT>>,
                    <<Nm.h, Nm.Documents, Nm.w, Nm.n_txt>> } -> 2
      [] node = <<Nm.a, Nm.git, Nm.g_txt>> -> 3
      [] node \in { <<Nm.h, Nm.Desktop, Nm.big_bin>>, <<Nm.h, Nm.Desktop, Nm.old_bin>> } -> 4
      [] OTHER -> 5

\* files that cannot be opened (PermissionError on open)
UnreadableFiles == { <<Nm.h, Nm.Documents, Nm.w, Nm.n_txt>> }
\* entries whose stat fails (OSError on getsize / getmtime)
StatErrFiles ==
    { <<Nm.tmp, Nm.t_log>>, <<Nm.a, Nm.node_modules, Nm.p, Nm.x_txt>>,
      <<Nm.a, Nm.node_modules, Nm.big, Nm.x_txt>> }

\* hours since the last modification
AgeHours(node) ==
    IF node \in { <<Nm.a, Nm.a_txt>>, <<Nm.h, Nm.Documents, Nm.r_txt>> } THEN 1 ELSE 30


-----------------------------------------------------------------------------
(* The filesystem calls of the code, on path strings *)

\* the node a path names, relative paths taken from the working directory
Resolve(plat, wd, p) == NodeOf(plat, Join(plat, wd, p))

\* os.path.exists(p)
PathExists(plat, wd, p) == Resolve(plat, wd, p) \in DirNodes \cup FileNodes

\* os.path.isfile(p)
PathIsFile(plat, wd, p) == Resolve(plat, wd, p) \in FileNodes

\* whether os.scandir(p) / os.listdir(p) succeeds
CanList(plat, wd, p) ==
    LET n == Resolve(plat, wd, p) IN n \in DirNodes /\ n \notin LockedDirs

\* os.listdir(p): every entry name
Listdir(plat, wd, p) ==
    LET l == DirTable(Resolve(plat, wd, p)) IN l.dirs \o l.files

\* whether os.path.getsize(p) / os.path.getmtime(p) succeeds
CanStat(plat, wd, p) ==
    LET n == Resolve(plat, wd, p) IN
    n \in DirNodes \cup FileNodes /\ n \notin StatErrFiles

\* os.path.getsize(p); a directory has the size of its own block
GetSize(plat, wd, p) ==
    LET n == Resolve(plat, wd, p) IN
    IF n \in DirNodes THEN 4096 ELSE SizeOf(ContentOf(n))

\* whether open(p, 'rb') and reading it succeeds
CanRead(plat, wd, p) ==
    LET n == Resolve(plat, wd, p) IN n \in FileNodes /\ n \notin UnreadableFiles

-----------------------------------------------------------------------------
(* os.walk(top), top-down.  A frame is a directory that was yielded: its    *)
(* path, its dirs list (which the loop body may edit in place) and the      *)
(* index of the next entry of dirs to descend into.  A frame with i = 0 is  *)
(* the top directory before its first listing.                              *)

Frame(top, dirs, i) == [top |-> top, dirs |-> dirs, i |-> i]

WalkInit(top) == << Frame(top, <<>>, 0) >>

Yield(plat, wd, st, p) ==
    LET l == DirTable(Resolve(plat, wd, p)) IN
    [yielded |-> TRUE, stack |-> Append(st, Frame(p, l.dirs, 1)), files |-> l.files]

\* a faulty variant of the generator: a directory whose listing fails ends
\* the walk
RECURSIVE WalkResume_Stops(_, _, _)
WalkResume_Stops(plat, wd, st) ==
    IF st = <<>> THEN [yielded |-> FALSE, stack |-> <<>>, files |-> <<>>]
    ELSE LET f == st[Len(st)]
             below == SubSeq(st, 1, Len(st) - 1)
         IN  IF f.i = 0
             THEN IF CanList(plat, wd, f.top) THEN Yield(plat, wd, below, f.top)
                  ELSE [yielded |-> FALSE, stack |-> <<>>, files |-> <<>>]
             ELSE IF f.i > Len(f.dirs) THEN WalkResume_Stops(plat, wd, below)
             ELSE LET new_path == Join(plat, f.top, f.dirs[f.i]) IN
                  IF CanList(plat, wd, new_path)
                  THEN Yield(plat, wd, Append(below, Frame(f.top, f.dirs, f.i + 1)),
                             new_path)
                  ELSE [yielded |-> FALSE, stack |-> <<>>, files |-> <<>>]

\* resume the generator: the next (root, dirs, files), or exhaustion.  A
\* directory whose listing fails is skipped without an error.
RECURSIVE WalkResume(_, _, _)
WalkResume(plat, wd, st) ==
    IF st = <<>> THEN [yielded |-> FALSE, stack |-> <<>>, files |-> <<>>]
    ELSE LET f == st[Len(st)]
             below == SubSeq(st, 1, Len(st) - 1)
         IN  IF f.i = 0
             THEN IF CanList(plat, wd, f.top) THEN Yield(plat, wd, below, f.top)
                  ELSE [yielded |-> FALSE, stack |-> <<>>, files |-> <<>>]
             ELSE IF f.i > Len(f.dirs) THEN WalkResume(plat, wd, below)
             ELSE LET new_path == Join(plat, f.top, f.dirs[f.i])
                      st1 == Append(below, Frame(f.top, f.dirs, f.i + 1))
                  IN  IF CanList(plat, wd, new_path)
                      THEN Yield(plat, wd, st1, new_path)
                      ELSE WalkResume(plat, wd, st1)

\* the root and the dirs list of the directory yielded last
CurRoot(st) == st[Len(st)].top
CurDirs(st) == st[Len(st)].dirs

\* the loop body's edit of dirs in place: dirs[:] = d, dirs.clear()
SetDirs(st, d) == [st EXCEPT ![Len(st)].dirs = d]

-----------------------------------------------------------------------------
(* fnmatch.fnmatch(name, pat): both normalised by os.path.normcase, then    *)
(* matched whole against the pattern, '*' for any run of characters and     *)
(* '?' for any one character.  No pattern of this model contains '[', so    *)
(* bracket expressions are not modelled.                                    *)

RECURSIVE GlobFrom(_, _, _, _)
GlobFrom(name, pat, i, j) ==
    IF i > Len(pat) THEN j > Len(name)
    ELSE IF pat[i] = "*"
         THEN GlobFrom(name, pat, i + 1, j)
              \/ (j <= Len(name) /\ GlobFrom(name, pat, i, j + 1))
    ELSE j <= Len(name)
         /\ (pat[i] = "?" \/ pat[i] = name[j])
         /\ GlobFrom(name, pat, i + 1, j + 1)

\* fnmatch.fnmatchcase(os.path.normcase(name), os.path.normcase(pat))
fnmatch(plat, name, pat) == GlobFrom(Normcase(plat, name), Normcase(plat, pat), 1, 1)


-----------------------------------------------------------------------------
(* The filesystem as a value: disk maps every node that exists to its entry *)
(* (directory or file, the file's bytes, the hours since its last           *)
(* modification).  The tools that write change it; a scan reads the tree    *)
(* above, of which TreeDisk is the image.                                   *)

Entry(kind, data, age) == [kind |-> kind, data |-> data, age |-> age]

\* the tree of the scans as a disk; a file's bytes are one token per content
TreeDisk ==
    [ n \in DirNodes \cup FileNodes |->
        IF n \in DirNodes THEN Entry("dir", <<>>, 0)
        ELSE Entry("file", <<ToString(ContentOf(n))>>, AgeHours(n)) ]

\* os.path.dirname of the path of a node
Parent(n) == IF n = <<>> THEN n ELSE SubSeq(n, 1, Len(n) - 1)

Prefixes(n) == { SubSeq(n, 1, k) : k \in 0..Len(n) }

Put(d, n, e) == [ x \in DOMAIN d \cup {n} |-> IF x = n THEN e ELSE d[x] ]

\* a faulty variant of the existence test: nothing is found to exist
DExists_Never(d, n) == FALSE

\* os.path.exists, os.path.isfile, os.path.isdir on a disk
DExists(d, n) == n \in DOMAIN d
DIsFile(d, n) == n \in DOMAIN d /\ d[n].kind = "file"
DIsDir(d, n) == n \in DOMAIN d /\ d[n].kind = "dir"

\* os.makedirs(path, exist_ok=True): every missing directory down to n is
\* made; it raises, having made nothing, when n or a directory above it is a
\* file
Makedirs(d, n) ==
    IF \E p \in Prefixes(n) : DIsFile(d, p)
    THEN [ok |-> FALSE, disk |-> d]
    ELSE [ok |-> TRUE,
          disk |-> [ x \in DOMAIN d \cup Prefixes(n) |->
                       IF x \in DOMAIN d THEN d[x]
                       ELSE Entry("dir", <<>>, 0) ]]

\* a faulty variant of open(): whatever the mode, the file is opened for
\* writing
Open_ForWriting(d, n, mode) == Put(d, n, Entry("file", <<>>, 0))

\* the disk after open(path, mode) on a path that can be opened, closed with
\* nothing written: 'r' and 'rb' leave it as it is, 'w' makes the file or
\* empties it, 'a' makes it when it is missing
Open(d, n, mode) ==
    IF mode \in {"r", "rb"} THEN d
    ELSE IF mode = "a" /\ n \in DOMAIN d THEN d
    ELSE Put(d, n, Entry("file", <<>>, 0))

\* a faulty variant of the text-mode write: the text is stored as it is
TextWrite_Raw(plat, s) == s

\* what a text-mode write puts on the disk for the string s: on Windows each
\* "\n" is written as "\r\n"  (the characters of this model are ASCII, one
\* byte each in UTF-8)
RECURSIVE TextWrite(_, _)
TextWrite(plat, s) ==
    IF s = <<>> THEN <<>>
    ELSE (IF Head(s) = "\n" /\ plat = "nt" THEN <<"\r", "\n">> ELSE <<Head(s)>>)
         \o TextWrite(plat, Tail(s))

\* os.listdir on a disk; the names of the model are given in the order a
\* listing yields them
DListdir(d, n) ==
    LET NameOrder ==
            << Nm.a, Nm.b, Nm.w, Nm.zz, Nm.a_txt, Nm.x_txt, Nm.n_txt, Nm.old_tmp,
               Nm.new_tmp, Nm.old_txt, Nm.OLD_LOG, Nm.locked_bak, Nm.d_tmp, Nm.in_tmp,
               Nm.tmp, Nm.h, Nm.Windows, Nm.Temp, Nm.AppData, Nm.Local >>
        Here(name) == Append(n, name) \in DOMAIN d
    IN  SelectSeq(NameOrder, Here)
-----------------------------------------------------------------------------
(* Requests and results *)

NoResult == [kind |-> "none"]

\* a tool call: the tool, its arguments, and search_path, the local variable
\* that holds the root being searched
Request(tool, pattern, path, stype, maxr, cs, depth, flag, hours) ==
    [tool |-> tool, search_pattern |-> pattern, given_path |-> path,
     search_path |-> path, search_type |-> stype, max_results |-> maxr,
     case_sensitive |-> cs, max_depth |-> depth, check_subdirectories |-> flag,
     hours |-> hours]

\* a faulty variant of the folder dict: it carries a size as a file's does
FolderItem_Sized(plat, root, name) ==
    [name |-> name, type |-> "folder", path |-> Join(plat, root, name),
     parent_directory |-> root, size_bytes |-> 4096]

\* the dict appended to found_items for a folder and for a file
FolderItem(plat, root, name) ==
    [name |-> name, type |-> "folder", path |-> Join(plat, root, name),
     parent_directory |-> root]
FileItem(plat, wd, root, name) ==
    [name |-> name, type |-> "file", path |-> Join(plat, root, name),
     parent_directory |-> root,
     size_bytes |-> GetSize(plat, wd, Join(plat, root, name))]

\* DriveSearchOutput(...); a message is its template and what it interpolates
DriveSearchOutput(success, message, items, total, stype, spath) ==
    [kind |-> "DriveSearchOutput", success |-> success, message |-> message,
     found_items |-> items, total_count |-> total, search_type |-> stype,
     search_path |-> spath]

Message(text, n, elapsed, limited, timed_out) ==
    [text |-> text, n |-> n, elapsed |-> elapsed, limited |-> limited,
     timed_out |-> timed_out]

-----------------------------------------------------------------------------
(* search_drive *)

\* timeout = 10.0, in milliseconds
timeout == 10000

\* files[:100]
SD_FILE_SLICE == 100

\* should_include_item(item_name, item_path, is_directory)
should_include_item(plat, r, item_name, is_directory) ==
    IF r.search_type = "files" /\ is_directory THEN FALSE
    ELSE IF r.search_type = "folders" /\ ~is_directory THEN FALSE
    ELSE LET \* pattern = search_pattern if case_sensitive else search_pattern.lower()
             pattern == IF r.case_sensitive THEN r.search_pattern
                        ELSE Lower(r.search_pattern)
             check_name == IF r.case_sensitive THEN item_name ELSE Lower(item_name)
         IN  fnmatch(plat, check_name, pattern) \/ Contains(check_name, pattern)

\* current_depth = root.replace(search_path, '').count(os.sep)
SD_Depth(plat, root, search_path) ==
    CountChar(RemoveAll(root, search_path), Sep(plat))

\* a faulty variant of the filter: every child directory is kept
SD_KeepDir_All(d) == TRUE

\* d not in skip_dirs and not d.startswith('.')
SD_KeepDir(d) == d \notin skip_dirs /\ ~StartsWith(d, <<".">>)

\* a faulty variant of the accumulator: the list of the call before
SD_StaleItems == found_items

\* found_items = []
SD_InitItems == <<>>

\* count >= max_results
SD_CapReached(cnt, maxr) == cnt >= maxr

\* time.time() - start_time > timeout
SD_TimedOut(t, t0) == t - t0 > timeout

Cause(old, new) == IF old = "none" THEN new ELSE old

SD_Start ==
    /\ pc = "idle" /\ req.tool = "search_drive"
    /\ LET search_path == Abspath(platform, cwd, req.given_path) IN
       IF ~PathExists(platform, cwd, search_path)
       THEN /\ result' = DriveSearchOutput(FALSE,
                             Message("does not exist", 0, 0, FALSE, FALSE),
                             <<>>, 0, "both", <<>>)
            /\ pc' = "done"
            /\ UNCHANGED <<req, stack, found_items, count, start_time>>
       ELSE /\ req' = [req EXCEPT !.search_path = search_path]
            /\ found_items' = SD_InitItems
            /\ count' = 0
            /\ start_time' = now
            /\ stack' = WalkInit(search_path)
            /\ pc' = "sd_walk"
            /\ UNCHANGED result
    /\ UNCHANGED <<platform, cwd, files, idx, roots, groups, now, scanned, aborted, history>>
    /\ UNCHANGED <<disk, other, chat>>

\* for root, dirs, files in os.walk(search_path): the checks before the loops
SD_Walk ==
    /\ pc = "sd_walk" /\ req.tool = "search_drive"
    /\ LET w == WalkResume(platform, cwd, stack) IN
       IF ~w.yielded
       THEN /\ pc' = "sd_finish"
            /\ stack' = <<>>
            /\ UNCHANGED <<files, idx, scanned, aborted>>
       ELSE LET root == CurRoot(w.stack) IN
            /\ scanned' = scanned \cup {root}
            /\ IF SD_TimedOut(now, start_time)
               THEN /\ aborted' = Cause(aborted, "timeout")
                    /\ pc' = "sd_finish"
                    /\ stack' = <<>>
                    /\ UNCHANGED <<files, idx>>
               ELSE IF SD_CapReached(count, req.max_results)
               THEN /\ aborted' = Cause(aborted, "cap")
                    /\ pc' = "sd_finish"
                    /\ stack' = <<>>
                    /\ UNCHANGED <<files, idx>>
               ELSE IF SD_Depth(platform, root, req.search_path) >= req.max_depth
               THEN /\ stack' = SetDirs(w.stack, <<>>)
                    /\ pc' = "sd_walk"
                    /\ UNCHANGED <<files, idx, aborted>>
               ELSE /\ stack' = SetDirs(w.stack, SelectSeq(CurDirs(w.stack), SD_KeepDir))
                    /\ files' = w.files
                    /\ idx' = 1
                    /\ pc' = "sd_dirs"
                    /\ UNCHANGED aborted
    /\ UNCHANGED <<platform, cwd, req, roots, found_items, count, groups, now,
                   start_time, result, history>>
    /\ UNCHANGED <<disk, other, chat>>

\* for dir_name in dirs: one iteration, or the end of the loop
SD_DirStep ==
    /\ pc = "sd_dirs" /\ req.tool = "search_drive"
    /\ LET dirs == CurDirs(stack)
           root == CurRoot(stack)
       IN  IF req.search_type \notin {"folders", "both"} \/ idx > Len(dirs)
           THEN /\ pc' = "sd_files" /\ idx' = 1
                /\ UNCHANGED <<found_items, count, aborted>>
           ELSE IF SD_CapReached(count, req.max_results) \/ SD_TimedOut(now, start_time)
           THEN /\ pc' = "sd_files" /\ idx' = 1
                /\ aborted' = Cause(aborted,
                       IF SD_CapReached(count, req.max_results) THEN "cap" ELSE "timeout")
                /\ UNCHANGED <<found_items, count>>
           ELSE /\ idx' = idx + 1
                /\ pc' = "sd_dirs"
                /\ UNCHANGED aborted
                /\ IF should_include_item(platform, req, dirs[idx], TRUE)
                   THEN /\ found_items' = Append(found_items,
                                              FolderItem(platform, root, dirs[idx]))
                        /\ count' = count + 1
                   ELSE UNCHANGED <<found_items, count>>
    /\ UNCHANGED <<platform, cwd, req, stack, files, roots, groups, now, start_time,
                   scanned, result, history>>
    /\ UNCHANGED <<disk, other, chat>>

\* for file_name in files[:100]: one iteration, or the end of the loop
SD_FileStep ==
    /\ pc = "sd_files" /\ req.tool = "search_drive"
    /\ LET fs == Take(files, SD_FILE_SLICE)
           root == CurRoot(stack)
       IN  IF req.search_type \notin {"files", "both"} \/ idx > Len(fs)
           THEN /\ pc' = "sd_walk"
                /\ UNCHANGED <<idx, found_items, count, aborted>>
           ELSE IF SD_CapReached(count, req.max_results) \/ SD_TimedOut(now, start_time)
           THEN /\ pc' = "sd_walk"
                /\ aborted' = Cause(aborted,
                       IF SD_CapReached(count, req.max_results) THEN "cap" ELSE "timeout")
                /\ UNCHANGED <<idx, found_items, count>>
           ELSE /\ idx' = idx + 1
                /\ pc' = "sd_files"
                /\ UNCHANGED aborted
                /\ IF should_include_item(platform, req, fs[idx], FALSE)
                      /\ CanStat(platform, cwd, Join(platform, root, fs[idx]))
                   THEN /\ found_items' = Append(found_items,
                                              FileItem(platform, cwd, root, fs[idx]))
                        /\ count' = count + 1
                   ELSE UNCHANGED <<found_items, count>>
    /\ UNCHANGED <<platform, cwd, req, stack, files, roots, groups, now, start_time,
                   scanned, result, history>>
    /\ UNCHANGED <<disk, other, chat>>

\* after the walk: elapsed_time, the message, the DriveSearchOutput
SD_Finish ==
    /\ pc = "sd_finish" /\ req.tool = "search_drive"
    /\ LET elapsed_time == Round2(now - start_time)
           message ==
               IF found_items # <<>>
               THEN Message("Found", count, elapsed_time,
                            count >= req.max_results, elapsed_time >= timeout)
               ELSE Message("No items found", 0, elapsed_time, FALSE, FALSE)
       IN  result' = DriveSearchOutput(TRUE, message, found_items, count,
                                       req.search_type, req.search_path)
    /\ pc' = "done"
    /\ UNCHANGED <<platform, cwd, req, stack, files, idx, roots, found_items, count,
                   groups, now, start_time, scanned, aborted, history>>
    /\ UNCHANGED <<disk, other, chat>>

-----------------------------------------------------------------------------
(* quick_search *)

\* depth >= 2
QS_DEPTH_LIMIT == 2

\* files[:50]
QS_FILE_SLICE == 50

\* search_paths, with os.getcwd() appended
search_paths(plat, wd) ==
    LET user_home == PathStr(plat, <<Nm.h>>)    \* os.path.expanduser("~")
    IN
    << Join(plat, user_home, Nm.Documents),
       Join(plat, user_home, Nm.Desktop),
       Join(plat, user_home, Nm.Downloads),
       Join(plat, user_home, Nm.Pictures),
       Join(plat, user_home, Nm.Videos),
       <<"C", ":", "\\", "U", "s", "e", "r", "s", "\\", "P", "u", "b", "l", "i", "c">>,
       <<"C", ":", "\\", "t", "e", "m", "p">>,
       <<"C", ":", "\\", "t", "m", "p">>,
       wd >>

\* pattern in name.lower() or fnmatch.fnmatch(name.lower(), pattern)
QS_Match(plat, r, name) ==
    LET pattern == Lower(r.search_pattern)      \* pattern = search_pattern.lower()
    IN  Contains(Lower(name), pattern) \/ fnmatch(plat, Lower(name), pattern)

\* depth = root.replace(search_path, '').count(os.sep)
QS_Depth(plat, root, search_path) ==
    CountChar(RemoveAll(root, search_path), Sep(plat))

\* not d.startswith('.') and d not in {'__pycache__', 'node_modules'}
QS_KeepDir(d) == ~StartsWith(d, <<".">>) /\ d \notin quick_skip_dirs

\* a faulty variant of the cap test: count > max_results
QS_CapReached_Late(cnt, maxr) == cnt > maxr

\* count >= max_results
QS_CapReached(cnt, maxr) == cnt >= maxr

QS_Start ==
    /\ pc = "idle" /\ req.tool = "quick_search"
    /\ start_time' = now
    /\ roots' = search_paths(platform, cwd)
    /\ found_items' = <<>>
    /\ count' = 0
    /\ pc' = "qs_root"
    /\ UNCHANGED <<platform, cwd, req, stack, files, idx, groups, now, scanned,
                   aborted, result, history>>
    /\ UNCHANGED <<disk, other, chat>>

\* for search_path in search_paths: the next path, or the end of the loop
QS_Root ==
    /\ pc = "qs_root" /\ req.tool = "quick_search"
    /\ IF roots = <<>>
       THEN /\ pc' = "qs_finish"
            /\ UNCHANGED <<req, roots, stack, aborted>>
       ELSE LET search_path == Head(roots) IN
            IF ~PathExists(platform, cwd, search_path)
            THEN /\ roots' = Tail(roots)
                 /\ pc' = "qs_root"
                 /\ UNCHANGED <<req, stack, aborted>>
            ELSE IF QS_CapReached(count, req.max_results)
            THEN /\ pc' = "qs_finish"
                 /\ aborted' = Cause(aborted, "cap")
                 /\ UNCHANGED <<req, roots, stack>>
            ELSE /\ roots' = Tail(roots)
                 /\ req' = [req EXCEPT !.search_path = search_path]
                 /\ stack' = WalkInit(search_path)
                 /\ pc' = "qs_walk"
                 /\ UNCHANGED aborted
    /\ UNCHANGED <<platform, cwd, files, idx, found_items, count, groups, now,
                   start_time, scanned, result, history>>
    /\ UNCHANGED <<disk, other, chat>>

\* for root, dirs, files in os.walk(search_path): the checks before the loops
QS_Walk ==
    /\ pc = "qs_walk" /\ req.tool = "quick_search"
    /\ LET w == WalkResume(platform, cwd, stack) IN
       IF ~w.yielded
       THEN /\ pc' = "qs_root"
            /\ stack' = <<>>
            /\ UNCHANGED <<files, idx, scanned, aborted>>
       ELSE LET root == CurRoot(w.stack) IN
            /\ scanned' = scanned \cup {root}
            /\ IF QS_Depth(platform, root, req.search_path) >= QS_DEPTH_LIMIT
               THEN /\ stack' = SetDirs(w.stack, <<>>)
                    /\ pc' = "qs_walk"
                    /\ UNCHANGED <<files, idx, aborted>>
               ELSE IF QS_CapReached(count, req.max_results)
               THEN /\ aborted' = Cause(aborted, "cap")
                    /\ pc' = "qs_root"
                    /\ stack' = <<>>
                    /\ UNCHANGED <<files, idx>>
               ELSE /\ stack' = SetDirs(w.stack, SelectSeq(CurDirs(w.stack), QS_KeepDir))
                    /\ files' = w.files
                    /\ idx' = 1
                    /\ pc' = "qs_dirs"
                    /\ UNCHANGED aborted
    /\ UNCHANGED <<platform, cwd, req, roots, found_items, count, groups, now,
                   start_time, result, history>>
    /\ UNCHANGED <<disk, other, chat>>

\* for dir_name in dirs: one iteration, or the end of the loop
QS_DirStep ==
    /\ pc = "qs_dirs" /\ req.tool = "quick_search"
    /\ LET dirs == CurDirs(stack)
           root == CurRoot(stack)
       IN  IF req.search_type \notin {"folders", "both"} \/ idx > Len(dirs)
           THEN /\ pc' = "qs_files" /\ idx' = 1
                /\ UNCHANGED <<found_items, count, aborted>>
           ELSE IF QS_CapReached(count, req.max_results)
           THEN /\ pc' = "qs_files" /\ idx' = 1
                /\ aborted' = Cause(aborted, "cap")
                /\ UNCHANGED <<found_items, count>>
           ELSE /\ idx' = idx + 1
                /\ pc' = "qs_dirs"
                /\ UNCHANGED aborted
                /\ IF QS_Match(platform, req, dirs[idx])
                   THEN /\ found_items' = Append(found_items,
                                              FolderItem(platform, root, dirs[idx]))
                        /\ count' = count + 1
                   ELSE UNCHANGED <<found_items, count>>
    /\ UNCHANGED <<platform, cwd, req, stack, files, roots, groups, now, start_time,
                   scanned, result, history>>
    /\ UNCHANGED <<disk, other, chat>>

\* for file_name in files[:50]: one iteration, or the end of the loop
QS_FileStep ==
    /\ pc = "qs_files" /\ req.tool = "quick_search"
    /\ LET fs == Take(files, QS_FILE_SLICE)
           root == CurRoot(stack)
       IN  IF req.search_type \notin {"files", "both"} \/ idx > Len(fs)
           THEN /\ pc' = "qs_walk"
                /\ UNCHANGED <<idx, found_items, count, aborted>>
           ELSE IF QS_CapReached(count, req.max_results)
           THEN /\ pc' = "qs_walk"
                /\ aborted' = Cause(aborted, "cap")
                /\ UNCHANGED <<idx, found_items, count>>
           ELSE /\ idx' = idx + 1
                /\ pc' = "qs_files"
                /\ UNCHANGED aborted
                /\ IF QS_Match(platform, req, fs[idx])
                      /\ CanStat(platform, cwd, Join(platform, root, fs[idx]))
                   THEN /\ found_items' = Append(found_items,
                                              FileItem(platform, cwd, root, fs[idx]))
                        /\ count' = count + 1
                   ELSE UNCHANGED <<found_items, count>>
    /\ UNCHANGED <<platform, cwd, req, stack, files, roots, groups, now, start_time,
                   scanned, result, history>>
    /\ UNCHANGED <<disk, other, chat>>

\* after the loop over search_paths: elapsed_time, the message, the output
QS_Finish ==
    /\ pc = "qs_finish" /\ req.tool = "quick_search"
    /\ LET elapsed_time == Round2(now - start_time)
           message ==
               IF found_items # <<>>
               THEN Message("Quick search found", count, elapsed_time, FALSE, FALSE)
               ELSE Message("No items found in common directories", 0, elapsed_time,
                            FALSE, FALSE)
       IN  result' = DriveSearchOutput(TRUE, message, found_items, count,
                                       req.search_type, <<>>)
    /\ pc' = "done"
    /\ UNCHANGED <<platform, cwd, req, stack, files, idx, roots, found_items, count,
                   groups, now, start_time, scanned, aborted, history>>
    /\ UNCHANGED <<disk, other, chat>>

-----------------------------------------------------------------------------
(* find_duplicates *)

\* 100 * 1024 * 1024
FD_SIZE_CEILING == 104857600

DuplicateFinderOutput(success, message, dgroups, total, wasted) ==
    [kind |-> "DuplicateFinderOutput", success |-> success, message |-> message,
     duplicate_groups |-> dgroups, total_duplicates |-> total,
     space_wasted |-> wasted]

\* a faulty variant of the grouping: every record under a key of its own
AddToHash_NewKey(gs, h, rec) == Append(gs, [hash |-> h, files |-> <<rec>>])

\* file_hashes[file_hash].append(rec), the key created on first use
AddToHash(gs, h, rec) ==
    IF \E k \in 1..Len(gs) : gs[k].hash = h
    THEN LET k == CHOOSE k \in 1..Len(gs) : gs[k].hash = h
         IN  [gs EXCEPT ![k].files = Append(@, rec)]
    ELSE Append(gs, [hash |-> h, files |-> <<rec>>])

\* the loop over file_hashes.items() that builds duplicate_groups
RECURSIVE DuplicateGroups(_)
DuplicateGroups(gs) ==
    IF gs = <<>> THEN <<>>
    ELSE LET g == Head(gs) IN
         (IF Len(g.files) > 1
          THEN << [hash |-> g.hash, files |-> g.files, count |-> Len(g.files),
                   size_each |-> g.files[1].size] >>
          ELSE <<>>) \o DuplicateGroups(Tail(gs))

\* a faulty variant of the total: one per group whatever its size
TotalDuplicates_PerGroup(gs) == Len(DuplicateGroups(gs))

\* total_duplicates += len(files) - 1
RECURSIVE TotalDuplicates(_)
TotalDuplicates(gs) ==
    IF gs = <<>> THEN 0
    ELSE (IF Len(Head(gs).files) > 1 THEN Len(Head(gs).files) - 1 ELSE 0)
         + TotalDuplicates(Tail(gs))

\* space_wasted += (len(files) - 1) * files[0]["size"]
RECURSIVE SpaceWasted(_)
SpaceWasted(gs) ==
    IF gs = <<>> THEN 0
    ELSE (IF Len(Head(gs).files) > 1
          THEN (Len(Head(gs).files) - 1) * Head(gs).files[1].size ELSE 0)
         + SpaceWasted(Tail(gs))

\* a faulty variant of the existence check: every path passes
FD_DirExists_Always(plat, wd, directory) == TRUE

\* if not os.path.exists(directory): whether the call proceeds
FD_DirExists(plat, wd, directory) == PathExists(plat, wd, directory)

FD_Start ==
    /\ pc = "idle" /\ req.tool = "find_duplicates"
    /\ LET directory == Abspath(platform, cwd, req.given_path) IN
       IF ~FD_DirExists(platform, cwd, directory)
       THEN /\ result' = DuplicateFinderOutput(FALSE,
                             Message("does not exist", 0, 0, FALSE, FALSE), <<>>, 0, 0)
            /\ pc' = "done"
            /\ UNCHANGED <<req, stack, files, idx, groups, scanned>>
       ELSE IF req.check_subdirectories
       THEN /\ req' = [req EXCEPT !.search_path = directory]
            /\ groups' = <<>>
            /\ stack' = WalkInit(directory)
            /\ pc' = "fd_walk"
            /\ UNCHANGED <<files, idx, scanned, result>>
       ELSE IF ~CanList(platform, cwd, directory)
       THEN \* os.listdir raises: caught by the outer handler
            /\ result' = DuplicateFinderOutput(FALSE,
                             Message("Error finding duplicates", 0, 0, FALSE, FALSE),
                             <<>>, 0, 0)
            /\ pc' = "done"
            /\ UNCHANGED <<req, stack, files, idx, groups, scanned>>
       ELSE /\ req' = [req EXCEPT !.search_path = directory]
            /\ groups' = <<>>
            /\ stack' = << Frame(directory, <<>>, 1) >>
            /\ files' = Listdir(platform, cwd, directory)
            /\ idx' = 1
            /\ scanned' = scanned \cup {directory}
            /\ pc' = "fd_files"
            /\ UNCHANGED result
    /\ UNCHANGED <<platform, cwd, roots, found_items, count, now, start_time,
                   aborted, history>>
    /\ UNCHANGED <<disk, other, chat>>

\* for root, dirs, files in file_generator
FD_Walk ==
    /\ pc = "fd_walk" /\ req.tool = "find_duplicates"
    /\ LET w == WalkResume(platform, cwd, stack) IN
       IF ~w.yielded
       THEN /\ pc' = "fd_finish"
            /\ stack' = <<>>
            /\ UNCHANGED <<files, idx, scanned>>
       ELSE /\ scanned' = scanned \cup {CurRoot(w.stack)}
            /\ stack' = w.stack
            /\ files' = w.files
            /\ idx' = 1
            /\ pc' = "fd_files"
    /\ UNCHANGED <<platform, cwd, req, roots, found_items, count, groups, now,
                   start_time, aborted, result, history>>
    /\ UNCHANGED <<disk, other, chat>>

\* for file_name in files: one iteration, or the end of the loop
FD_FileStep ==
    /\ pc = "fd_files" /\ req.tool = "find_duplicates"
    /\ IF idx > Len(files)
       THEN /\ pc' = "fd_walk"
            /\ UNCHANGED <<idx, groups>>
       ELSE LET file_name == files[idx]
                file_path == Join(platform, CurRoot(stack), file_name)
                file_size == GetSize(platform, cwd, file_path)
            IN  /\ idx' = idx + 1
                /\ pc' = "fd_files"
                /\ IF /\ CanStat(platform, cwd, file_path)
                      /\ ~(file_size > FD_SIZE_CEILING)
                      /\ CanRead(platform, cwd, file_path)
                   THEN groups' = AddToHash(groups,
                            Md5(ContentOf(Resolve(platform, cwd, file_path))),
                            [path |-> file_path, name |-> file_name, size |-> file_size])
                   ELSE UNCHANGED groups
    /\ disk' = IF /\ idx <= Len(files)
                  /\ LET file_path == Join(platform, CurRoot(stack), files[idx])
                     IN  /\ CanStat(platform, cwd, file_path)
                         /\ ~(GetSize(platform, cwd, file_path) > FD_SIZE_CEILING)
                         /\ CanRead(platform, cwd, file_path)
               THEN \* with open(file_path, 'rb') as f
                    Open(disk, Resolve(platform, cwd,
                                       Join(platform, CurRoot(stack), files[idx])), "rb")
               ELSE disk
    /\ UNCHANGED <<platform, cwd, req, stack, files, roots, found_items, count, now,
                   start_time, scanned, aborted, result, history, other, chat>>

\* "Find duplicates": the groups of more than one file, and the totals
FD_Finish ==
    /\ pc = "fd_finish" /\ req.tool = "find_duplicates"
    /\ LET duplicate_groups == DuplicateGroups(groups) IN
       result' = DuplicateFinderOutput(TRUE,
                     Message(IF duplicate_groups # <<>> THEN "Found groups"
                             ELSE "No duplicate files found",
                             Len(duplicate_groups), 0, FALSE, FALSE),
                     duplicate_groups, TotalDuplicates(groups), SpaceWasted(groups))
    /\ pc' = "done"
    /\ UNCHANGED <<platform, cwd, req, stack, files, idx, roots, found_items, count,
                   groups, now, start_time, scanned, aborted, history>>
    /\ UNCHANGED <<disk, other, chat>>

-----------------------------------------------------------------------------
(* monitor_directory.  A modification time is counted in hours before the   *)
(* call (negative), so mtime > cutoff_time reads mtime > -hours.            *)

GetMtime(plat, wd, p) == 0 - AgeHours(Resolve(plat, wd, p))

\* recent_changes.sort(key = modified, reverse = True): stable, newest first
RECURSIVE InsertByModified(_, _)
InsertByModified(s, x) ==
    IF s = <<>> THEN <<x>>
    ELSE IF Head(s).modified >= x.modified
         THEN <<Head(s)>> \o InsertByModified(Tail(s), x)
         ELSE <<x>> \o s

RECURSIVE SortByModified(_, _)
SortByModified(s, acc) ==
    IF s = <<>> THEN acc
    ELSE SortByModified(Tail(s), InsertByModified(acc, Head(s)))

\* whether the existence check of monitor_directory lets the call proceed

MD_Start ==
    /\ pc = "idle" /\ req.tool = "monitor_directory"
    /\ LET directory == Abspath(platform, cwd, req.given_path) IN
       IF ~PathExists(platform, cwd, directory)
       THEN /\ result' = [kind |-> "dict", success |-> FALSE,
                          message |-> Message("does not exist", 0, 0, FALSE, FALSE)]
            /\ pc' = "done"
            /\ UNCHANGED <<req, stack, found_items>>
       ELSE /\ req' = [req EXCEPT !.search_path = directory]
            /\ found_items' = <<>>
            /\ stack' = WalkInit(directory)
            /\ pc' = "md_walk"
            /\ UNCHANGED result
    /\ UNCHANGED <<platform, cwd, files, idx, roots, count, groups, now, start_time,
                   scanned, aborted, history>>
    /\ UNCHANGED <<disk, other, chat>>

\* for root, dirs, files in os.walk(directory)
MD_Walk ==
    /\ pc = "md_walk" /\ req.tool = "monitor_directory"
    /\ LET w == WalkResume(platform, cwd, stack) IN
       IF ~w.yielded
       THEN /\ pc' = "md_finish"
            /\ stack' = <<>>
            /\ UNCHANGED <<files, idx, scanned>>
       ELSE /\ scanned' = scanned \cup {CurRoot(w.stack)}
            /\ stack' = w.stack
            /\ files' = w.files
            /\ idx' = 1
            /\ pc' = "md_files"
    /\ UNCHANGED <<platform, cwd, req, roots, found_items, count, groups, now,
                   start_time, aborted, result, history>>
    /\ UNCHANGED <<disk, other, chat>>

\* for file_name in files: one iteration, or the end of the loop
MD_FileStep ==
    /\ pc = "md_files" /\ req.tool = "monitor_directory"
    /\ IF idx > Len(files)
       THEN /\ pc' = "md_walk"
            /\ UNCHANGED <<idx, found_items>>
       ELSE LET file_name == files[idx]
                file_path == Join(platform, CurRoot(stack), file_name)
                mtime == GetMtime(platform, cwd, file_path)
            IN  /\ idx' = idx + 1
                /\ pc' = "md_files"
                /\ IF CanStat(platform, cwd, file_path) /\ mtime > 0 - req.hours
                   THEN found_items' = Append(found_items,
                            [file |-> file_name, path |-> file_path,
                             modified |-> mtime,
                             size |-> GetSize(platform, cwd, file_path)])
                   ELSE UNCHANGED found_items
    /\ UNCHANGED <<platform, cwd, req, stack, files, roots, count, groups, now,
                   start_time, scanned, aborted, result, history>>
    /\ UNCHANGED <<disk, other, chat>>

\* the sort and the dict returned
MD_Finish ==
    /\ pc = "md_finish" /\ req.tool = "monitor_directory"
    /\ LET recent_changes == SortByModified(found_items, <<>>) IN
       result' = [kind |-> "dict", success |-> TRUE,
                  message |-> Message("Found files modified", Len(recent_changes), 0,
                                      FALSE, FALSE),
                  directory |-> req.search_path, hours_monitored |-> req.hours,
                  recent_changes |-> recent_changes,
                  total_changes |-> Len(recent_changes)]
    /\ pc' = "done"
    /\ UNCHANGED <<platform, cwd, req, stack, files, idx, roots, found_items, count,
                   groups, now, start_time, scanned, aborted, history>>
    /\ UNCHANGED <<disk, other, chat>>

-----------------------------------------------------------------------------
(* read_file and list_files: both return a plain str *)

StrResult(text, detail) == [kind |-> "str", text |-> text, detail |-> detail]

read_file ==
    /\ pc = "idle" /\ req.tool = "read_file"
    /\ result' =
         IF CanRead(platform, cwd, req.given_path)
         THEN StrResult("content", <<ContentOf(Resolve(platform, cwd, req.given_path))>>)
         ELSE StrResult("Error reading file", req.given_path)
    /\ disk' = IF CanRead(platform, cwd, req.given_path)
               THEN \* with open(file_path, 'r') as file
                    Open(disk, Resolve(platform, cwd, req.given_path), "r")
               ELSE disk
    /\ pc' = "done"
    /\ UNCHANGED <<platform, cwd, req, stack, files, idx, roots, found_items, count,
                   groups, now, start_time, scanned, aborted, history, other, chat>>

list_files ==
    /\ pc = "idle" /\ req.tool = "list_files"
    /\ result' =
         IF PathIsFile(platform, cwd, req.given_path)
         THEN StrResult("is a file, not a directory", req.given_path)
         ELSE IF ~PathExists(platform, cwd, req.given_path)
         THEN StrResult("does not exist", req.given_path)
         ELSE IF ~CanList(platform, cwd, req.given_path)
         THEN StrResult("no files found in", req.given_path)
         ELSE StrResult("Files in", Listdir(platform, cwd, req.given_path))
    /\ scanned' = IF /\ ~PathIsFile(platform, cwd, req.given_path)
                     /\ PathExists(platform, cwd, req.given_path)
                     /\ CanList(platform, cwd, req.given_path)
                  THEN scanned \cup {req.given_path} ELSE scanned
    /\ pc' = "done"
    /\ UNCHANGED <<platform, cwd, req, stack, files, idx, roots, found_items, count,
                   groups, now, start_time, aborted, history>>
    /\ UNCHANGED <<disk, other, chat>>

RECURSIVE SumSizes(_, _, _, _)
SumSizes(plat, wd, directory, names) ==
    IF names = <<>> THEN 0
    ELSE GetSize(plat, wd, Join(plat, directory, Head(names)))
         + SumSizes(plat, wd, directory, Tail(names))

\* file_stats(directory): the number and the sizes of the files directly in
\* the directory.  file_info.sort(key=size) is stable: of the files of the
\* smallest size the first listed comes first, of those of the largest size
\* the last listed comes last.  (The fields average_size_bytes and
\* file_types are computed from the same names and sizes.)
file_stats ==
    /\ pc = "idle" /\ req.tool = "file_stats"
    /\ LET directory == Abspath(platform, cwd, req.given_path)
           listed == IF CanList(platform, cwd, directory)
                     THEN Listdir(platform, cwd, directory) ELSE <<>>
           IsFile(f) == PathIsFile(platform, cwd, Join(platform, directory, f))
           names == SelectSeq(listed, IsFile)
           size(i) == GetSize(platform, cwd, Join(platform, directory, names[i]))
           I == 1..Len(names)
           DictResult(success, message, total_files, total_size_bytes, largest_file,
                      smallest_file) ==
               [kind |-> "dict", success |-> success, message |-> message,
                total_files |-> total_files, total_size_bytes |-> total_size_bytes,
                largest_file |-> largest_file, smallest_file |-> smallest_file]
           small == CHOOSE i \in I : \A j \in I : size(i) < size(j)
                                                   \/ (size(i) = size(j) /\ i <= j)
           large == CHOOSE i \in I : \A j \in I : size(i) > size(j)
                                                   \/ (size(i) = size(j) /\ i >= j)
       IN  result' =
             IF ~PathExists(platform, cwd, directory)
             THEN DictResult(FALSE, "does not exist", 0, 0, <<>>, <<>>)
             ELSE IF \/ ~CanList(platform, cwd, directory)
                     \/ \E i \in I : ~CanStat(platform, cwd,
                                                Join(platform, directory, names[i]))
             THEN DictResult(FALSE, "Error getting file stats", 0, 0, <<>>, <<>>)
             ELSE IF names = <<>>
             THEN DictResult(TRUE, "No files found in directory", 0, 0, <<>>, <<>>)
             ELSE DictResult(TRUE, "Statistics for", Len(names),
                             SumSizes(platform, cwd, directory, names),
                             names[large], names[small])
    /\ pc' = "done"
    /\ UNCHANGED <<platform, cwd, req, stack, files, idx, roots, found_items, count,
                   groups, now, start_time, scanned, aborted, history, disk, other, chat>>

-----------------------------------------------------------------------------
(* The tools that change files.  One action is one whole call; history      *)
(* keeps, for every call made, its arguments, what it returned and the disk *)
(* before it.                                                               *)

MaxCalls == 2
MaxWrites == 3

\* a call of one of these tools: the tool and its arguments
FileCall(tool, path, path2, content, flag, days) ==
    [tool |-> tool, path |-> path, path2 |-> path2, content |-> content,
     flag |-> flag, days |-> days]

\* the output models; a field left at None is <<>>
FileCopyOutput(success, message, source_file, destination_file) ==
    [kind |-> "FileCopyOutput", success |-> success, message |-> message,
     source_file |-> source_file, destination_file |-> destination_file]
FileRenameOutput(success, message, old_name, new_name) ==
    [kind |-> "FileRenameOutput", success |-> success, message |-> message,
     old_name |-> old_name, new_name |-> new_name]

\* what a call leaves: the value returned and the disk
Outcome(res, d) == [result |-> res, disk |-> d]

\* write_file(file_path, content, append)
WR_Run(d, plat, wd, file_path, content, append) ==
    LET FileWriterOutput(success, message, path, operation) ==
            [kind |-> "FileWriterOutput", success |-> success, message |-> message,
             file_path |-> path, operation |-> operation]
    IN
    IF file_path = <<>>
    THEN Outcome(FileWriterOutput(FALSE, "No file path provided", <<>>, "None"), d)
    ELSE LET abs_path == Abspath(plat, wd, file_path)
             n == NodeOf(plat, abs_path)
             mk == Makedirs(d, Parent(n))
         IN  IF ~mk.ok
             THEN Outcome(FileWriterOutput(FALSE, "Error creating directory", <<>>,
                                           "None"), d)
             ELSE LET file_exists == DExists(mk.disk, n) IN
                  IF DIsDir(mk.disk, n)
                  THEN \* open() raises IsADirectoryError
                       Outcome(FileWriterOutput(FALSE, "Error writing to file", <<>>,
                                                "None"), mk.disk)
                  ELSE IF file_exists /\ append
                  THEN Outcome(FileWriterOutput(TRUE, "Content appended", abs_path,
                                                "appended"),
                               Put(mk.disk, n,
                                   Entry("file",
                                         mk.disk[n].data
                                           \o TextWrite(plat, <<"\n">> \o content), 0)))
                  ELSE Outcome(FileWriterOutput(TRUE,
                                   IF file_exists THEN "Content written (overwritten)"
                                   ELSE "New file created", abs_path,
                                   IF file_exists THEN "overwritten" ELSE "created"),
                               Put(mk.disk, n, Entry("file", TextWrite(plat, content), 0)))

\* create_directory(directory_path)
CD_Run(d, plat, wd, directory_path) ==
    LET DirectoryOutput(success, message, path) ==
            [kind |-> "DirectoryOutput", success |-> success, message |-> message,
             directory_path |-> path]
        abs_path == Abspath(plat, wd, directory_path)
        n == NodeOf(plat, abs_path)
    IN  IF DExists(d, n)
        THEN Outcome(DirectoryOutput(FALSE, "already exists", <<>>), d)
        ELSE LET mk == Makedirs(d, n) IN
             IF ~mk.ok
             THEN Outcome(DirectoryOutput(FALSE, "Error creating directory", <<>>), d)
             ELSE Outcome(DirectoryOutput(TRUE, "Directory created successfully",
                                          abs_path), mk.disk)

\* copy_file from os.makedirs on, the two existence tests passed.
\* shutil.copy2 raises when the source is missing or a directory; a
\* destination that is a directory takes the copy under the source's name,
\* and a file at the destination has its content replaced
CF_Act(d, plat, wd, source_path, destination_path) ==
    LET src_path == Abspath(plat, wd, source_path)
        dst_path == Abspath(plat, wd, destination_path)
        src == NodeOf(plat, src_path)
        dst == NodeOf(plat, dst_path)
        mk == Makedirs(d, Parent(dst))
        target == IF DIsDir(mk.disk, dst) THEN Append(dst, src[Len(src)]) ELSE dst
        Failed(disk_left) ==
            Outcome(FileCopyOutput(FALSE, "Error copying file", <<>>, <<>>), disk_left)
    IN  IF ~mk.ok THEN Failed(d)
        ELSE IF ~DIsFile(mk.disk, src) \/ DIsDir(mk.disk, target) \/ target = src
        THEN Failed(mk.disk)
        ELSE Outcome(FileCopyOutput(TRUE, "File copied successfully", src_path, dst_path),
                     Put(mk.disk, target, mk.disk[src]))

\* copy_file(source_path, destination_path)
CF_Run(d, plat, wd, source_path, destination_path) ==
    IF ~DExists(d, NodeOf(plat, Abspath(plat, wd, source_path)))
    THEN Outcome(FileCopyOutput(FALSE, "Source file does not exist", <<>>, <<>>), d)
    ELSE IF DExists(d, NodeOf(plat, Abspath(plat, wd, destination_path)))
    THEN Outcome(FileCopyOutput(FALSE, "already exists", <<>>, <<>>), d)
    ELSE CF_Act(d, plat, wd, source_path, destination_path)

\* os.rename(old, new) of a file or a directory with all below it, new not
\* there or replaced by it
Rename(d, old, new) ==
    LET Subtree == { x \in DOMAIN d : Len(x) >= Len(old) /\ SubSeq(x, 1, Len(old)) = old }
    IN  [ x \in (DOMAIN d \ (Subtree \cup {new}))
                \cup { new \o SubSeq(y, Len(old) + 1, Len(y)) : y \in Subtree } |->
            IF x \in DOMAIN d \ (Subtree \cup {new}) THEN d[x]
            ELSE d[old \o SubSeq(x, Len(new) + 1, Len(x))] ]

\* rename_file from os.makedirs on, the two existence tests passed.
\* os.rename raises when old is missing or is moved below itself; when new
\* exists it raises on Windows, and on POSIX it replaces a file by a file
\* and an empty directory by a directory
RN_Act(d, plat, wd, old_path, new_path) ==
    LET abs_old == Abspath(plat, wd, old_path)
        abs_new == Abspath(plat, wd, new_path)
        old == NodeOf(plat, abs_old)
        new == NodeOf(plat, abs_new)
        mk == Makedirs(d, Parent(new))
        Empty(n) == \A x \in DOMAIN mk.disk : Parent(x) # n \/ x = <<>>
        Replaces ==
            /\ plat = "posix"
            /\ \/ DIsFile(mk.disk, old) /\ DIsFile(mk.disk, new)
               \/ DIsDir(mk.disk, old) /\ DIsDir(mk.disk, new) /\ Empty(new)
        Failed(disk_left) ==
            Outcome(FileRenameOutput(FALSE, "Error renaming file", <<>>, <<>>), disk_left)
    IN  IF ~mk.ok THEN Failed(d)
        ELSE IF \/ ~DExists(mk.disk, old)
                \/ old \in Prefixes(new)
                \/ DExists(mk.disk, new) /\ ~Replaces
        THEN Failed(mk.disk)
        ELSE Outcome(FileRenameOutput(TRUE, "File renamed successfully", abs_old,
                                      abs_new),
                     Rename(mk.disk, old, new))

\* rename_file(old_path, new_path)
RN_Run(d, plat, wd, old_path, new_path) ==
    IF ~DExists(d, NodeOf(plat, Abspath(plat, wd, old_path)))
    THEN Outcome(FileRenameOutput(FALSE, "does not exist", <<>>, <<>>), d)
    ELSE IF DExists(d, NodeOf(plat, Abspath(plat, wd, new_path)))
    THEN Outcome(FileRenameOutput(FALSE, "already exists", <<>>, <<>>), d)
    ELSE RN_Act(d, plat, wd, old_path, new_path)

\* temp_dirs, before the entries that are None or do not exist are dropped
temp_dirs(plat) ==
    LET \* tempfile.gettempdir(), in the environment the system sets up
        gettempdir == IF plat = "nt"
                      THEN PathStr(plat, <<Nm.h, Nm.AppData, Nm.Local, Nm.Temp>>)
                      ELSE PathStr(plat, <<Nm.tmp>>)
    IN  IF plat = "nt"
        THEN << gettempdir, PathStr(plat, <<Nm.Windows, Nm.Temp>>),
                PathStr(plat, <<Nm.h, Nm.AppData, Nm.Local, Nm.Temp>>) >>
        ELSE << gettempdir, PathStr(plat, <<Nm.tmp>>) >>

temp_patterns ==
    { <<".", "t", "m", "p">>, <<".", "t", "e", "m", "p">>, <<".", "l", "o", "g">>,
      <<".", "b", "a", "k">>, <<".", "c", "a", "c", "h", "e">> }

\* a faulty variant of the suffix test: every name passes
is_temp_Any(file_name) == TRUE

\* any(file_name.lower().endswith(pattern) for pattern in temp_patterns)
is_temp(file_name) == \E pattern \in temp_patterns : EndsWith(Lower(file_name), pattern)

\* mtime < cutoff_time, with cutoff_time = now - timedelta(days=max_age_days)
OlderThan(age_hours, max_age_days) == age_hours > 24 * max_age_days

\* files that os.remove refuses to delete
UndeletableNames == { Nm.locked_bak }

\* the loop over os.listdir(temp_dir): acc holds the disk and the three lists
RECURSIVE CT_Files(_, _, _, _, _)
CT_Files(names, dir, delete_files, max_age_days, acc) ==
    IF names = <<>> THEN acc
    ELSE LET file_name == Head(names)
             n == Append(dir, file_name)
             hit == DIsFile(acc.disk, n) /\ is_temp(file_name)
                    /\ OlderThan(acc.disk[n].age, max_age_days)
             listed == [acc EXCEPT !.temp_files = Append(@, file_name)]
             next ==
                 IF ~hit THEN acc
                 ELSE IF ~delete_files THEN listed
                 ELSE IF file_name \in UndeletableNames
                 THEN [listed EXCEPT !.failed_files = Append(@, file_name)]
                 ELSE [listed EXCEPT !.processed_files = Append(@, file_name),
                                     !.disk = [x \in DOMAIN acc.disk \ {n} |-> acc.disk[x]]]
         IN  CT_Files(Tail(names), dir, delete_files, max_age_days, next)

\* the loop over temp_dirs
RECURSIVE CT_Dirs(_, _, _, _, _)
CT_Dirs(dirs, plat, delete_files, max_age_days, acc) ==
    IF dirs = <<>> THEN acc
    ELSE LET dir == NodeOf(plat, Head(dirs))
             next == IF DIsDir(acc.disk, dir)
                     THEN CT_Files(DListdir(acc.disk, dir), dir, delete_files,
                                   max_age_days, acc)
                     ELSE acc
         IN  CT_Dirs(Tail(dirs), plat, delete_files, max_age_days, next)

\* cleanup_temp_files(delete_files, max_age_days)
CT_Run(d, plat, delete_files, max_age_days) ==
    LET acc == CT_Dirs(temp_dirs(plat), plat, delete_files, max_age_days,
                       [disk |-> d, temp_files |-> <<>>, processed_files |-> <<>>,
                        failed_files |-> <<>>])
        BulkOperationOutput(success, message, processed_files, failed_files,
                            total_processed) ==
            [kind |-> "BulkOperationOutput", success |-> success, message |-> message,
             processed_files |-> processed_files, failed_files |-> failed_files,
             total_processed |-> total_processed]
    IN  Outcome(BulkOperationOutput(TRUE,
                    IF delete_files THEN "Cleanup completed"
                    ELSE "Found temporary files",
                    IF delete_files THEN acc.processed_files ELSE acc.temp_files,
                    acc.failed_files,
                    IF delete_files THEN Len(acc.processed_files)
                    ELSE Len(acc.temp_files)),
                acc.disk)

\* the bookkeeping of a call: the request, the result, the disk
Called(call, out) ==
    /\ req' = call
    /\ result' = out.result
    /\ disk' = out.disk
    /\ history' = Append(history, [req |-> call, result |-> out.result, before |-> disk])
    /\ UNCHANGED <<platform, cwd, pc, stack, files, idx, roots, found_items, count,
                   groups, now, start_time, scanned, aborted, other, chat>>
-----------------------------------------------------------------------------
(* The clock: time passes while a search runs.  It is counted from the      *)
(* beginning of the call, in steps of ClockStep, up to MaxClock.            *)

Tick ==
    /\ pc \notin {"idle", "done"}
    /\ req.tool \in {"search_drive", "quick_search"}
    /\ now + ClockStep <= MaxClock
    /\ now' = now + ClockStep
    /\ UNCHANGED <<platform, cwd, req, pc, stack, files, idx, roots, found_items,
                   count, groups, start_time, scanned, aborted, result, history>>
    /\ UNCHANGED <<disk, other, chat>>

-----------------------------------------------------------------------------
(* The calls of the model *)

\* the calls of the model: for each tool the arguments it is called with.
\* The patterns are '*.txt', 'a' and 'zz'; the search paths are the root, the
\* directory a written with a trailing separator, a home directory and a path
\* that does not exist.
Requests(plat) ==
    LET Patterns == {Nm.pat_txt, Nm.pat_a, Nm.pat_zz}
        SearchTypes == {"files", "folders", "both"}
        SD_Paths == { PathStr(plat, <<>>), PathStr(plat, <<Nm.a>>) \o <<Sep(plat)>>,
                      PathStr(plat, <<Nm.h, Nm.Documents>>), PathStr(plat, <<Nm.zz>>) }
    IN
    { Request("search_drive", p, sp, st, m, cs, d, FALSE, 0) :
        p \in Patterns, sp \in SD_Paths, st \in SearchTypes,
        m \in 1..MaxResults, cs \in BOOLEAN, d \in 0..MaxDepthArg }
    \cup
    { Request("quick_search", p, <<>>, st, m, FALSE, 0, FALSE, 0) :
        p \in Patterns, st \in SearchTypes, m \in 1..MaxResults }
    \cup
    { Request("find_duplicates", <<>>, PathStr(plat, n), "both", 0, FALSE, 0, f, 0) :
        n \in { <<>>, <<Nm.a>>, <<Nm.a, Nm.a>>, <<Nm.h>>, <<Nm.h, Nm.Desktop>>, <<Nm.zz>>,
                <<Nm.a, Nm.a_txt>>, <<Nm.a, Nm.node_modules>> },
        f \in BOOLEAN }
    \cup
    { Request("monitor_directory", <<>>, PathStr(plat, n), "both", 0, FALSE, 0, FALSE, h) :
        n \in { <<>>, <<Nm.a>>, <<Nm.h>>, <<Nm.tmp>>, <<Nm.zz>> }, h \in {24, 48} }
    \cup
    { Request("read_file", <<>>, PathStr(plat, n), "both", 0, FALSE, 0, FALSE, 0) :
        n \in { <<Nm.a, Nm.a_txt>>, <<Nm.a>>, <<Nm.h, Nm.Documents, Nm.w, Nm.n_txt>>, <<Nm.zz>> } }
    \cup
    { Request("list_files", <<>>, PathStr(plat, n), "both", 0, FALSE, 0, FALSE, 0) :
        n \in { <<Nm.a, Nm.a_txt>>, <<Nm.a>>, <<Nm.a, Nm.node_modules>>, <<Nm.zz>> } }
    \cup
    { Request("file_stats", <<>>, PathStr(plat, n), "both", 0, FALSE, 0, FALSE, 0) :
        n \in { <<Nm.a>>, <<Nm.a, Nm.a>>, <<Nm.h>>, <<Nm.tmp>>, <<Nm.a, Nm.a_txt>>,
                <<Nm.a, Nm.node_modules>>, <<Nm.zz>> } }

\* the state before a call begins
Fresh ==
    /\ pc = "idle"
    /\ stack = <<>>
    /\ files = <<>>
    /\ idx = 1
    /\ roots = <<>>
    /\ found_items = <<>>
    /\ count = 0
    /\ groups = <<>>
    /\ now = 0
    /\ start_time = 0
    /\ scanned = {}
    /\ aborted = "none"
    /\ result = NoResult
    /\ session_state = [sessions |-> <<>>, current_session_id |-> "None",
                        messages |-> <<>>]
    /\ sessions_db = <<>>
    /\ script = [at |-> "idle", prompt |-> "None"]

Init ==
    /\ platform \in {"posix", "nt"}
    /\ req \in Requests(platform)
    /\ cwd \in { PathStr(platform, n) : n \in { <<Nm.a>>, <<Nm.h, Nm.Documents, Nm.w>> } }
    /\ req.tool # "quick_search" => cwd = PathStr(platform, <<Nm.a>>)
    /\ Fresh
    /\ history = <<>>
    /\ disk = TreeDisk
    /\ other = [pc |-> "none"]

Next ==
    \/ SD_Start \/ SD_Walk \/ SD_DirStep \/ SD_FileStep \/ SD_Finish
    \/ QS_Start \/ QS_Root \/ QS_Walk \/ QS_DirStep \/ QS_FileStep \/ QS_Finish
    \/ FD_Start \/ FD_Walk \/ FD_FileStep \/ FD_Finish
    \/ MD_Start \/ MD_Walk \/ MD_FileStep \/ MD_Finish
    \/ read_file \/ list_files \/ file_stats
    \/ Tick

Spec == Init /\ [][Next]_vars


-----------------------------------------------------------------------------
(* The same search called twice.  The second call begins when the first has *)
(* returned: its locals are new, its clock is counted from its own          *)
(* beginning, and history keeps what the first call returned.               *)

Restart ==
    /\ pc = "done" /\ req.tool \in {"search_drive", "quick_search"}
    /\ history = <<>>
    /\ history' = <<[result |-> result, aborted |-> aborted]>>
    /\ req' = [req EXCEPT !.search_path = req.given_path]
    /\ pc' = "idle"
    /\ stack' = <<>>
    /\ files' = <<>>
    /\ idx' = 1
    /\ roots' = <<>>
    /\ now' = 0
    /\ start_time' = 0
    /\ scanned' = {}
    /\ aborted' = "none"
    /\ result' = NoResult
    /\ UNCHANGED <<platform, cwd, found_items, count, groups>>
    /\ UNCHANGED <<disk, other, chat>>

InitRepeat == Init /\ req.tool \in {"search_drive", "quick_search"}

SpecRepeat ==
    /\ InitRepeat
    /\ [][\/ SD_Start \/ SD_Walk \/ SD_DirStep \/ SD_FileStep \/ SD_Finish
          \/ QS_Start \/ QS_Root \/ QS_Walk \/ QS_DirStep \/ QS_FileStep \/ QS_Finish
          \/ Tick
          \/ Restart]_vars

-----------------------------------------------------------------------------
(* The match predicates alone, on every name and pattern of a small         *)
(* alphabet and on the names and patterns '*.txt', 'a.txt', 'a.tx',         *)
(* 'config' and 'myconfig.json'.                                            *)

MaxNameLen == 2
MaxPatLen == 2

\* if should_include_item(file_name, file_path, False): one name put to the
\* predicate of search_drive
SD_Match ==
    /\ pc = "idle" /\ req.tool = "search_drive" /\ files # <<>>
    /\ result' = [kind |-> "match", name |-> files[1],
                  accepted |-> should_include_item(platform, req, files[1], FALSE)]
    /\ pc' = "matched"
    /\ UNCHANGED <<platform, cwd, req, stack, files, idx, roots, found_items, count,
                   groups, now, start_time, scanned, aborted, history>>
    /\ UNCHANGED <<disk, other, chat>>

\* if pattern in file_name.lower() or fnmatch.fnmatch(file_name.lower(),
\* pattern): one name put to the predicate of quick_search
QS_MatchStep ==
    /\ pc = "idle" /\ req.tool = "quick_search" /\ files # <<>>
    /\ result' = [kind |-> "match", name |-> files[1],
                  accepted |-> QS_Match(platform, req, files[1])]
    /\ pc' = "matched"
    /\ UNCHANGED <<platform, cwd, req, stack, files, idx, roots, found_items, count,
                   groups, now, start_time, scanned, aborted, history>>
    /\ UNCHANGED <<disk, other, chat>>

InitMatch ==
    LET WordsOver(chars, n) == UNION { [1..k -> chars] : k \in 1..n }
        MatchNames == WordsOver({"a", "A", "b"}, MaxNameLen)
                      \cup {Nm.a_txt, Nm.a_tx, Nm.myconfig_json}
        MatchPatterns == WordsOver({"a", "A", "*", "?"}, MaxPatLen)
                         \cup {Nm.pat_txt, Nm.pat_config}
    IN
    /\ platform \in {"posix", "nt"}
    /\ cwd = PathStr(platform, <<Nm.a>>)
    /\ \E p \in MatchPatterns, cs \in BOOLEAN :
         req \in { Request("search_drive", p, PathStr(platform, <<>>), "both", 1, cs,
                           1, FALSE, 0),
                   Request("quick_search", p, <<>>, "both", 1, FALSE, 0, FALSE, 0) }
    /\ files \in { <<n>> : n \in MatchNames }
    /\ pc = "idle"
    /\ stack = <<>>
    /\ idx = 1
    /\ roots = <<>>
    /\ found_items = <<>>
    /\ count = 0
    /\ groups = <<>>
    /\ now = 0
    /\ start_time = 0
    /\ scanned = {}
    /\ aborted = "none"
    /\ result = NoResult
    /\ history = <<>>
    /\ disk = TreeDisk
    /\ other = [pc |-> "none"]
    /\ session_state = [sessions |-> <<>>, current_session_id |-> "None",
                        messages |-> <<>>]
    /\ sessions_db = <<>>
    /\ script = [at |-> "idle", prompt |-> "None"]

SpecMatch == InitMatch /\ [][SD_Match \/ QS_MatchStep]_vars

-----------------------------------------------------------------------------
(* quick_search from working directories inside and outside the home        *)
(* folders it searches                                                      *)

InitQuick ==
    /\ platform \in {"posix", "nt"}
    /\ cwd \in { PathStr(platform, n) :
                   n \in { <<Nm.a>>, <<Nm.h, Nm.Documents>>, <<Nm.h, Nm.Documents, Nm.w>>,
                           <<Nm.h, Nm.Desktop>> } }
    /\ req \in { Request("quick_search", p, <<>>, st, m, FALSE, 0, FALSE, 0) :
                   p \in {Nm.n_txt, Nm.pat_txt, Nm.pat_a},
                   st \in {"files", "folders", "both"}, m \in 1..MaxResults }
    /\ Fresh
    /\ history = <<>>
    /\ disk = TreeDisk
    /\ other = [pc |-> "none"]

SpecQuick ==
    InitQuick /\ [][\/ QS_Start \/ QS_Root \/ QS_Walk \/ QS_DirStep \/ QS_FileStep
                    \/ QS_Finish \/ Tick]_vars

-----------------------------------------------------------------------------
(* Calls of the tools that change files, on a small working tree: the       *)
(* directory w with a file and a directory in it, and the temp directories  *)
(* of the platform with files of every kind cleanup_temp_files tells apart. *)

\* the working tree; TempFiles are the files of a temp directory
WorkDisk(plat) ==
    LET DirEntry == Entry("dir", <<>>, 0)
        TempFiles(dir) ==
            { <<dir, DirEntry>>,
              <<Append(dir, Nm.old_tmp), Entry("file", <<"o">>, 200)>>,
              <<Append(dir, Nm.new_tmp), Entry("file", <<"n">>, 1)>>,
              <<Append(dir, Nm.old_txt), Entry("file", <<"t">>, 200)>>,
              <<Append(dir, Nm.OLD_LOG), Entry("file", <<"l">>, 200)>>,
              <<Append(dir, Nm.locked_bak), Entry("file", <<"k">>, 200)>>,
              <<Append(dir, Nm.d_tmp), Entry("dir", <<>>, 200)>>,
              <<dir \o <<Nm.d_tmp, Nm.in_tmp>>, Entry("file", <<"i">>, 200)>> }
        WorkEntries ==
            { <<<<>>, DirEntry>>,
              <<<<Nm.w>>, DirEntry>>,
              <<<<Nm.w, Nm.a_txt>>, Entry("file", <<"x">>, 30)>>,
              <<<<Nm.w, Nm.b>>, DirEntry>>,
              <<<<Nm.w, Nm.b, Nm.x_txt>>, Entry("file", <<"y">>, 30)>> }
            \cup (IF plat = "nt"
                  THEN { <<<<Nm.Windows>>, DirEntry>>, <<<<Nm.h>>, DirEntry>>,
                         <<<<Nm.h, Nm.AppData>>, DirEntry>>,
                         <<<<Nm.h, Nm.AppData, Nm.Local>>, DirEntry>> }
                       \cup TempFiles(<<Nm.Windows, Nm.Temp>>)
                       \cup TempFiles(<<Nm.h, Nm.AppData, Nm.Local, Nm.Temp>>)
                  ELSE TempFiles(<<Nm.tmp>>))
    IN  [ n \in { e[1] : e \in WorkEntries } |->
            (CHOOSE e \in WorkEntries : e[1] = n)[2] ]

\* the sources and the destinations copy_file and rename_file are called
\* with: a file, a directory and a missing path; an existing file, an existing
\* directory, a new name, and a new name in a directory that is missing
SourcePaths(plat) ==
    { PathStr(plat, n) : n \in { <<Nm.w, Nm.a_txt>>, <<Nm.w, Nm.b>>, <<Nm.w, Nm.zz>> } }

DestPaths(plat) ==
    { PathStr(plat, n) : n \in { <<Nm.w, Nm.b, Nm.x_txt>>, <<Nm.w, Nm.b>>,
                                 <<Nm.w, Nm.n_txt>>, <<Nm.w, Nm.b, Nm.zz, Nm.n_txt>> } }

\* a call is made when none is running and fewer than limit were made
WriteCall(limit) ==
    /\ pc = "idle" /\ Len(history) < limit
    /\ \E p \in { Nm.a_txt,                        \* relative: w/a.txt, which exists
                  PathStr(platform, <<Nm.w, Nm.zz, Nm.n_txt>>),    \* no such directory
                  PathStr(platform, <<Nm.w, Nm.a_txt, Nm.n_txt>>), \* below a file
                  PathStr(platform, <<Nm.w, Nm.b>>),               \* a directory
                  <<>> },
            c \in { <<"z">>, <<"p", "\n", "q">> },
            a \in BOOLEAN :
         Called(FileCall("write_file", p, <<>>, c, a, 0),
                WR_Run(disk, platform, cwd, p, c, a))

write_file == WriteCall(MaxCalls)

create_directory ==
    /\ pc = "idle" /\ Len(history) < MaxCalls
    /\ \E p \in { PathStr(platform, n) :
                    n \in { <<Nm.w, Nm.b>>, <<Nm.w, Nm.zz>>, <<Nm.w, Nm.zz, Nm.a>>,
                            <<Nm.w, Nm.a_txt, Nm.zz>>, <<Nm.w, Nm.a_txt>> } } :
         Called(FileCall("create_directory", p, <<>>, <<>>, FALSE, 0),
                CD_Run(disk, platform, cwd, p))

copy_file ==
    /\ pc = "idle" /\ Len(history) < MaxCalls
    /\ \E s \in SourcePaths(platform), t \in DestPaths(platform) :
         Called(FileCall("copy_file", s, t, <<>>, FALSE, 0),
                CF_Run(disk, platform, cwd, s, t))

rename_file ==
    /\ pc = "idle" /\ Len(history) < MaxCalls
    /\ \E s \in SourcePaths(platform), t \in DestPaths(platform) :
         Called(FileCall("rename_file", s, t, <<>>, FALSE, 0),
                RN_Run(disk, platform, cwd, s, t))

cleanup_temp_files ==
    /\ pc = "idle" /\ Len(history) < MaxCalls
    /\ \E f \in BOOLEAN, days \in {0, 7} :
         Called(FileCall("cleanup_temp_files", <<>>, <<>>, <<>>, f, days),
                CT_Run(disk, platform, f, days))

InitFiles ==
    /\ platform \in {"posix", "nt"}
    /\ cwd = PathStr(platform, <<Nm.w>>)
    /\ req = FileCall("none", <<>>, <<>>, <<>>, FALSE, 0)
    /\ Fresh
    /\ history = <<>>
    /\ disk = WorkDisk(platform)
    /\ other = [pc |-> "none"]

SpecFiles ==
    /\ InitFiles
    /\ [][\/ write_file \/ create_directory \/ copy_file \/ rename_file
          \/ cleanup_temp_files]_vars

\* write_file called again and again
write_file_again == WriteCall(MaxWrites)

SpecWrite == InitFiles /\ [][write_file_again]_vars

-----------------------------------------------------------------------------
(* Two calls at once.  Each call of a tool has its own locals; the clock,   *)
(* the working directory and the filesystem are the process's.  The        *)
(* variables req .. result hold the locals of the call that is running,    *)
(* and other those of the call that is suspended.  Each of the two calls   *)
(* is first made alone, its result kept in history, and then both are made *)
(* together, the scheduler switching between them at any step.  Alone the  *)
(* calls finish at once; time passes only while the two run together.      *)

\* the locals of the call that is running, as a record
Locals ==
    [req |-> req, pc |-> pc, stack |-> stack, files |-> files, idx |-> idx,
     roots |-> roots, found_items |-> found_items, count |-> count,
     groups |-> groups, start_time |-> start_time, scanned |-> scanned,
     aborted |-> aborted, result |-> result]

\* the locals l become those of the call that is running
Load(l) ==
    /\ req' = l.req /\ pc' = l.pc /\ stack' = l.stack /\ files' = l.files
    /\ idx' = l.idx /\ roots' = l.roots /\ found_items' = l.found_items
    /\ count' = l.count /\ groups' = l.groups /\ start_time' = l.start_time
    /\ scanned' = l.scanned /\ aborted' = l.aborted /\ result' = l.result

\* the locals of a call of r that has not begun
NotBegun(r) ==
    [req |-> [r EXCEPT !.search_path = r.given_path], pc |-> "idle", stack |-> <<>>,
     files |-> <<>>, idx |-> 1, roots |-> <<>>, found_items |-> <<>>, count |-> 0,
     groups |-> <<>>, start_time |-> 0, scanned |-> {}, aborted |-> "none",
     result |-> NoResult]

\* a faulty variant: found_items is one list that the two calls share
LocalItems_Shared(running, suspended) == running

\* found_items = [] is a local of each call (search_drive, quick_search; so
\* is file_hashes = {} in find_duplicates): the call that resumes finds the
\* list it left, not the list of the call that ran meanwhile
LocalItems(running, suspended) == suspended

\* the call that ran alone has returned: its result is kept and the next
\* call is made, alone after the first, together with the first after the
\* second
Handover ==
    /\ pc = "done" /\ other.pc = "waiting"
    /\ history' = Append(history, [req |-> NotBegun(req).req, result |-> result,
                                   aborted |-> aborted])
    /\ Load(NotBegun(other.req))
    /\ other' = IF history = <<>> THEN [pc |-> "waiting", req |-> NotBegun(req).req]
                ELSE NotBegun(req)
    /\ UNCHANGED <<platform, cwd, now, disk, chat>>

\* the scheduler suspends the call that is running and resumes the other
Switch ==
    /\ other.pc \notin {"none", "waiting", "done"}
    /\ Load([other EXCEPT !.found_items = LocalItems(found_items, other.found_items)])
    /\ other' = Locals
    /\ UNCHANGED <<platform, cwd, now, history, disk, chat>>


\* the pairs of calls: two searches with different patterns, one below the
\* other; a search and a duplicate scan; a quick search and a duplicate scan;
\* two duplicate scans
InitPair ==
    LET SD1(plat) == Request("search_drive", Nm.pat_txt, PathStr(plat, <<>>), "both",
                             MaxResults, FALSE, MaxDepthArg, FALSE, 0)
        SD2(plat) == Request("search_drive", Nm.pat_a, PathStr(plat, <<Nm.a>>), "both",
                             MaxResults, FALSE, MaxDepthArg, FALSE, 0)
        QS1(plat) == Request("quick_search", Nm.pat_txt, <<>>, "both", MaxResults, FALSE,
                             0, FALSE, 0)
        FD1(plat) == Request("find_duplicates", <<>>, PathStr(plat, <<Nm.a>>), "both", 0,
                             FALSE, 0, TRUE, 0)
        FD2(plat) == Request("find_duplicates", <<>>, PathStr(plat, <<Nm.a, Nm.a>>),
                             "both", 0, FALSE, 0, TRUE, 0)
    IN
    /\ platform \in {"posix", "nt"}
    /\ cwd = PathStr(platform, <<Nm.a>>)
    /\ \E p \in { <<SD1(platform), SD2(platform)>>, <<SD1(platform), FD1(platform)>>,
                  <<QS1(platform), FD1(platform)>>, <<FD1(platform), FD2(platform)>> } :
         /\ req = p[1]
         /\ other = [pc |-> "waiting", req |-> p[2]]
    /\ Fresh
    /\ history = <<>>
    /\ disk = TreeDisk

SpecPair ==
    /\ InitPair
    /\ [][\/ SD_Start \/ SD_Walk \/ SD_DirStep \/ SD_FileStep \/ SD_Finish
          \/ QS_Start \/ QS_Root \/ QS_Walk \/ QS_DirStep \/ QS_FileStep \/ QS_Finish
          \/ FD_Start \/ FD_Walk \/ FD_FileStep \/ FD_Finish
          \/ (Len(history) = 2 /\ Tick)     \* time passes while the two run together
          \/ Handover
          \/ Switch]_vars

-----------------------------------------------------------------------------
(* A scan of a directory that holds an entry the system refuses, and then   *)
(* the same scan of its twin, the directory with the same entries but for   *)
(* the refused ones: p (the directory lock cannot be listed, x.txt has no   *)
(* stat) and q; big (101 files, the first without stat) and twin; wide (101 *)
(* directories), which holds nothing refused and is its own twin.           *)

\* the twin of a node of the tree
TwinOf(n) ==
    IF Len(n) >= 3 /\ SubSeq(n, 1, 2) = <<Nm.a, Nm.node_modules>> /\ n[3] \in {Nm.p, Nm.big}
    THEN [n EXCEPT ![3] = IF n[3] = Nm.p THEN Nm.q ELSE Nm.twin]
    ELSE n

\* the second call: the arguments of the first, the directory replaced by
\* its twin
CallTwin ==
    /\ pc = "done" /\ history = <<>>
    /\ history' = <<[req |-> req, cwd |-> cwd, result |-> result, aborted |-> aborted]>>
    /\ LET path == PathStr(platform, TwinOf(NodeOf(platform, req.given_path))) IN
       req' = [req EXCEPT !.given_path = IF req.tool = "quick_search" THEN <<>> ELSE path,
                          !.search_path = IF req.tool = "quick_search" THEN <<>> ELSE path]
    /\ cwd' = PathStr(platform, TwinOf(NodeOf(platform, cwd)))
    /\ pc' = "idle"
    /\ stack' = <<>>
    /\ files' = <<>>
    /\ idx' = 1
    /\ roots' = <<>>
    /\ found_items' = <<>>
    /\ count' = 0
    /\ groups' = <<>>
    /\ now' = 0
    /\ start_time' = 0
    /\ scanned' = {}
    /\ aborted' = "none"
    /\ result' = NoResult
    /\ UNCHANGED <<platform, disk, other, chat>>

InitTwin ==
    LET Scanned == { <<Nm.a, Nm.node_modules, Nm.p>>, <<Nm.a, Nm.node_modules, Nm.big>>,
                     <<Nm.a, Nm.node_modules, Nm.wide>> }
    IN
    /\ platform \in {"posix", "nt"}
    /\ \E f \in Scanned :
         \/ /\ cwd = PathStr(platform, <<Nm.a>>)
            /\ req \in
                 { Request("search_drive", p, PathStr(platform, f), "both", m, FALSE,
                           MaxDepthArg, FALSE, 0) :
                     p \in {Nm.pat_txt, Nm.pat_a}, m \in 1..MaxResults }
                 \cup { Request(t, <<>>, PathStr(platform, f), "both", 0, FALSE, 0,
                                sub, 48) :
                          t \in IF f[3] = Nm.wide THEN {}
                                ELSE {"find_duplicates", "monitor_directory"},
                          sub \in BOOLEAN }
         \/ /\ cwd = PathStr(platform, f)
            /\ req \in { Request("quick_search", p, <<>>, "both", m, FALSE, 0, FALSE, 0) :
                           p \in {Nm.pat_txt, Nm.pat_a}, m \in 1..MaxResults }
    /\ Fresh
    /\ history = <<>>
    /\ disk = TreeDisk
    /\ other = [pc |-> "none"]

SpecTwin ==
    /\ InitTwin
    /\ [][\/ SD_Start \/ SD_Walk \/ SD_DirStep \/ SD_FileStep \/ SD_Finish
          \/ QS_Start \/ QS_Root \/ QS_Walk \/ QS_DirStep \/ QS_FileStep \/ QS_Finish
          \/ FD_Start \/ FD_Walk \/ FD_FileStep \/ FD_Finish
          \/ MD_Start \/ MD_Walk \/ MD_FileStep \/ MD_Finish
          \/ Tick
          \/ CallTwin]_vars

-----------------------------------------------------------------------------
(* backup_file and write_file, called one after another on the working      *)
(* tree.  backup_file reads the clock: now counts milliseconds, the          *)
(* timestamp whole seconds.                                                  *)

\* os.path.splitext(filename): the name and the extension from its last dot,
\* dots the name begins with set aside
Splitext(filename) ==
    LET dots == { i \in 1..Len(filename) :
                    filename[i] = "." /\ \E j \in 1..(i - 1) : filename[j] # "." }
        last == CHOOSE i \in dots : \A j \in dots : j <= i
    IN  IF dots = {} THEN <<filename, <<>>>>
        ELSE << SubSeq(filename, 1, last - 1), SubSeq(filename, last, Len(filename)) >>

\* backup_file(file_path), the clock at ms milliseconds
BK_Run(d, plat, wd, file_path, ms) ==
    LET FileBackupOutput(success, message, original_file, backup_file_) ==
            [kind |-> "FileBackupOutput", success |-> success, message |-> message,
             original_file |-> original_file, backup_file |-> backup_file_]
        Digit == <<"0", "1", "2", "3", "4", "5", "6", "7", "8", "9">>
        \* datetime.datetime.now().strftime("%Y%m%d_%H%M%S"), in the first
        \* minute of a day
        seconds == (ms \div 1000) % 60
        timestamp == <<"2", "0", "2", "6", "0", "1", "0", "1", "_", "0", "0", "0", "0">>
                     \o <<Digit[(seconds \div 10) + 1], Digit[(seconds % 10) + 1]>>
        abs_path == Abspath(plat, wd, file_path)
        n == NodeOf(plat, abs_path)
        filename == n[Len(n)]
        backup_filename == Splitext(filename)[1]
                           \o <<"_", "b", "a", "c", "k", "u", "p", "_">>
                           \o timestamp \o Splitext(filename)[2]
        backup_path == Join(plat, PathStr(plat, Parent(n)), backup_filename)
        bk == NodeOf(plat, backup_path)
        \* shutil.copy2 into a directory copies under the file's own name
        target == IF DIsDir(d, bk) THEN Append(bk, filename) ELSE bk
    IN  IF n = <<>> \/ ~DExists(d, n)
        THEN Outcome(FileBackupOutput(FALSE, "does not exist", <<>>, <<>>), d)
        ELSE IF DIsDir(d, n) \/ DIsDir(d, target)
        THEN \* shutil.copy2 raises
             Outcome(FileBackupOutput(FALSE, "Error creating backup", <<>>, <<>>), d)
        ELSE Outcome(FileBackupOutput(TRUE, "Backup created successfully", abs_path,
                                      backup_path),
                     Put(d, target, d[n]))

\* a call of backup_file, some time after the call before it
backup_file ==
    /\ pc = "idle" /\ Len(history) < MaxWrites
    /\ \E p \in { Nm.a_txt, PathStr(platform, <<Nm.w, Nm.b, Nm.x_txt>>),
                  PathStr(platform, <<Nm.w, Nm.b>>), PathStr(platform, <<Nm.w, Nm.zz>>) },
          dt \in {0, 400, 1000} :
         LET out == BK_Run(disk, platform, cwd, p, now + dt) IN
         /\ now' = now + dt
         /\ req' = FileCall("backup_file", p, <<>>, <<>>, FALSE, 0)
         /\ result' = out.result
         /\ disk' = out.disk
         /\ history' = Append(history, [req |-> req', result |-> out.result,
                                        before |-> disk])
    /\ UNCHANGED <<platform, cwd, pc, stack, files, idx, roots, found_items, count,
                   groups, start_time, scanned, aborted, other, chat>>

SpecBackup == InitFiles /\ [][backup_file \/ write_file_again]_vars

-----------------------------------------------------------------------------
(* Two calls of the tools that change files, at once.  Every agent reply   *)
(* starts a server process of its own, so the calls of two chat sessions   *)
(* run side by side on one filesystem.  copy_file and rename_file test     *)
(* their paths and then act, in separate system calls; the other call can  *)
(* run in between.  write_file is taken as one step.                       *)

\* the call returns out.result, having left the disk out.disk
Returns(out) ==
    /\ pc' = "done"
    /\ result' = out.result
    /\ disk' = out.disk
    /\ history' = Append(history, [req |-> req, result |-> out.result, before |-> disk])
    /\ UNCHANGED <<platform, cwd, req, stack, files, idx, roots, found_items, count,
                   groups, now, start_time, scanned, aborted, other, chat>>

\* the two os.path.exists tests of copy_file and rename_file: the call
\* returns when one of them fails, and goes on otherwise
CheckPaths ==
    /\ pc = "idle" /\ req.tool \in {"copy_file", "rename_file"}
    /\ IF /\ DExists(disk, NodeOf(platform, Abspath(platform, cwd, req.path)))
          /\ ~DExists(disk, NodeOf(platform, Abspath(platform, cwd, req.path2)))
       THEN /\ pc' = "checked"
            /\ UNCHANGED <<platform, cwd, req, stack, files, idx, roots, found_items,
                           count, groups, now, start_time, scanned, aborted, result,
                           history, disk, other, chat>>
       ELSE Returns(IF req.tool = "copy_file"
                    THEN CF_Run(disk, platform, cwd, req.path, req.path2)
                    ELSE RN_Run(disk, platform, cwd, req.path, req.path2))

\* os.makedirs and shutil.copy2 / os.rename, on the disk as it is by now
CopyOrRename ==
    /\ pc = "checked"
    /\ Returns(IF req.tool = "copy_file"
               THEN CF_Act(disk, platform, cwd, req.path, req.path2)
               ELSE RN_Act(disk, platform, cwd, req.path, req.path2))

\* a call of write_file
WriteAtOnce ==
    /\ pc = "idle" /\ req.tool = "write_file"
    /\ Returns(WR_Run(disk, platform, cwd, req.path, req.content, req.flag))

\* the first call is a copy or a rename; the second is one too, or a
\* write_file to one of the destinations
InitRace ==
    LET Moves(plat) ==
            { FileCall(t, s, d, <<>>, FALSE, 0) :
                t \in {"copy_file", "rename_file"}, s \in SourcePaths(plat),
                d \in DestPaths(plat) }
        Writes(plat) ==
            { FileCall("write_file", d, <<>>, <<"z">>, a, 0) :
                d \in DestPaths(plat), a \in BOOLEAN }
    IN
    /\ platform \in {"posix", "nt"}
    /\ cwd = PathStr(platform, <<Nm.w>>)
    /\ req \in Moves(platform)
    /\ Fresh
    /\ history = <<>>
    /\ disk = WorkDisk(platform)
    /\ \E r \in Moves(platform) \cup Writes(platform) :
         other = [req |-> r, pc |-> "idle", stack |-> <<>>, files |-> <<>>, idx |-> 1,
                  roots |-> <<>>, found_items |-> <<>>, count |-> 0, groups |-> <<>>,
                  start_time |-> 0, scanned |-> {}, aborted |-> "none",
                  result |-> NoResult]

SpecRace == InitRace /\ [][CheckPaths \/ CopyOrRename \/ WriteAtOnce \/ Switch]_vars

-----------------------------------------------------------------------------
(* The chat UI (src/app.py).  Streamlit runs the script from its first     *)
(* line for every event of the page; st.session_state lasts as long as the *)
(* browser session, and the table sessions as long as sessions.db.  A run  *)
(* that waits for the agent is at "auto" (the first message of a session   *)
(* is being answered) or at "chat" (the message typed in the chat input    *)
(* is); every other run ends within the action that starts it.  An event   *)
(* of the page that arrives while a run waits for the agent stops that run *)
(* at its next st.* call.                                                  *)

\* the events of the page that a behaviour holds at most
MaxEvents == 4

SessionIds == {"s1", "s2", "s3"}

\* a faulty variant of the delete handler: current_session_id is kept
Unselect_Kept(current, session_id) == current

\* if st.session_state.current_session_id == session_id:
\*     st.session_state.current_session_id = None
Unselect(current, session_id) == IF current = session_id THEN "None" ELSE current

\* the script from the main area on, the sidebar passed with no handler
\* taken: the messages of the current session are made when missing, a lone
\* user message is handed to the agent, and else the prompt of the chat
\* input, when there is one, is appended and handed to the agent
MainArea(ss, prompt) ==
    LET current_session == ss.current_session_id
        msgs == IF current_session \in DOMAIN ss.messages THEN ss.messages
                ELSE Put(ss.messages, current_session, <<>>)
        ss1 == [ss EXCEPT !.messages = msgs]
    IN  IF current_session = "None"
        THEN [session_state |-> ss, script |-> [at |-> "idle", prompt |-> "None"]]
        ELSE IF Len(msgs[current_session]) = 1 /\ msgs[current_session][1].role = "user"
        THEN [session_state |-> ss1, script |-> [at |-> "auto", prompt |-> prompt]]
        ELSE IF prompt # "None"
        THEN [session_state |->
                  [ss1 EXCEPT !.messages[current_session] =
                                    Append(@, [role |-> "user", content |-> prompt])],
              script |-> [at |-> "chat", prompt |-> "None"]]
        ELSE [session_state |-> ss1, script |-> [at |-> "idle", prompt |-> "None"]]

\* a handler of the page has changed st.session_state to ss and the table
\* to db and called st.rerun(): the script runs again, loads the table, and
\* goes through the main area; the event is written down
Handled(event, session_id, ss, db) ==
    LET run == MainArea([ss EXCEPT !.sessions = db], "None") IN
    /\ sessions_db' = db
    /\ session_state' = run.session_state
    /\ script' = run.script
    /\ history' = Append(history, [event |-> event, session_id |-> session_id,
                                   before |-> session_state,
                                   after |-> run.session_state])
    /\ UNCHANGED server

\* the session made by New Chat and by a quick command: str(uuid.uuid4()) is
\* an id that no session has
NewSession(new_session_id, first_messages) ==
    LET \* st.session_state.sessions was loaded from the table when the run began
        session_name == Cardinality(DOMAIN sessions_db) + 1
        db == Put(sessions_db, new_session_id, [name |-> session_name])
    IN  Handled(IF first_messages = <<>> THEN "new" ELSE "quick", new_session_id,
                [session_state EXCEPT
                   !.sessions = db,
                   !.current_session_id = new_session_id,
                   !.messages = Put(@, new_session_id, first_messages)],
                db)

\* the button New Chat
NewChat ==
    /\ script.at = "idle" /\ Len(history) < MaxEvents
    /\ \E new_session_id \in SessionIds \ (DOMAIN sessions_db
                                           \cup DOMAIN session_state.messages) :
         NewSession(new_session_id, <<>>)

\* the button of a session in the sidebar; on the current session it does
\* nothing, and the run goes on to the main area
SelectSession ==
    /\ script.at = "idle" /\ Len(history) < MaxEvents
    /\ \E session_id \in DOMAIN sessions_db :
         Handled("select", session_id,
                 IF session_id = session_state.current_session_id THEN session_state
                 ELSE [session_state EXCEPT
                         !.current_session_id = session_id,
                         !.messages = IF session_id \in DOMAIN @ THEN @
                                      ELSE Put(@, session_id, <<>>)],
                 sessions_db)

\* the delete button of a session in the sidebar
DeleteSession ==
    /\ script.at = "idle" /\ Len(history) < MaxEvents
    /\ \E session_id \in DOMAIN sessions_db :
         LET db == [x \in DOMAIN sessions_db \ {session_id} |-> sessions_db[x]] IN
         Handled("delete", session_id,
                 [session_state EXCEPT
                    !.sessions = db,
                    !.messages = [x \in DOMAIN @ \ {session_id} |-> @[x]],
                    !.current_session_id = Unselect(@, session_id)],
                 db)

\* a quick command of the welcome page, which is shown when no session is
\* current
QuickCommand ==
    /\ script.at = "idle" /\ Len(history) < MaxEvents
    /\ session_state.current_session_id = "None"
    /\ \E new_session_id \in SessionIds \ (DOMAIN sessions_db
                                           \cup DOMAIN session_state.messages) :
         NewSession(new_session_id, << [role |-> "user", content |-> "cmd"] >>)

\* a prompt typed in the chat input, which is shown when a session is
\* current
ChatInput ==
    /\ script.at = "idle" /\ Len(history) < MaxEvents
    /\ session_state.current_session_id # "None"
    /\ LET run == MainArea([session_state EXCEPT !.sessions = sessions_db], "prompt")
       IN  /\ session_state' = run.session_state
           /\ script' = run.script
           /\ history' = Append(history,
                                [event |-> "chat",
                                 session_id |-> session_state.current_session_id,
                                 before |-> session_state,
                                 after |-> run.session_state])
    /\ UNCHANGED <<server, sessions_db>>

\* asyncio.run(get_agent_response(...)) returns the reply or raises an
\* Exception: the reply or the error text is appended as the assistant's
\* message; after the first message of a session the prompt of the chat
\* input, when there is one, is appended and handed to the agent
AgentReturns ==
    /\ script.at \in {"auto", "chat"}
    /\ \E response \in {"reply", "error"} :
         LET current_session == session_state.current_session_id
             answered == [session_state EXCEPT !.messages[current_session] =
                              Append(@, [role |-> "assistant", content |-> response])]
         IN  IF script.at = "auto"
             THEN LET run == MainArea(answered, script.prompt) IN
                  /\ session_state' = run.session_state
                  /\ script' = run.script
             ELSE /\ session_state' = answered
                  /\ script' = [at |-> "idle", prompt |-> "None"]
    /\ UNCHANGED <<server, history, sessions_db>>

\* an event of the page while the run waits for the agent: when the agent
\* has returned, st.markdown(response) raises the exception that stops the
\* run, which except Exception does not catch, and nothing is appended
Interrupt ==
    /\ script.at \in {"auto", "chat"}
    /\ script' = [at |-> "idle", prompt |-> "None"]
    /\ UNCHANGED <<server, history, session_state, sessions_db>>

\* a browser session that has run the script once, with no session in the
\* table or with one that an earlier browser session left
InitChat ==
    /\ platform = "posix"
    /\ cwd = PathStr(platform, <<>>)
    /\ req = FileCall("none", <<>>, <<>>, <<>>, FALSE, 0)
    /\ pc = "idle" /\ stack = <<>> /\ files = <<>> /\ idx = 1 /\ roots = <<>>
    /\ found_items = <<>> /\ count = 0 /\ groups = <<>> /\ now = 0
    /\ start_time = 0 /\ scanned = {} /\ aborted = "none" /\ result = NoResult
    /\ history = <<>>
    /\ disk = <<>>
    /\ other = [pc |-> "none"]
    /\ sessions_db \in { <<>>, [x \in {"s1"} |-> [name |-> 1]] }
    /\ session_state = [sessions |-> sessions_db, current_session_id |-> "None",
                        messages |-> <<>>]
    /\ script = [at |-> "idle", prompt |-> "None"]

SpecChat ==
    InitChat /\ [][\/ NewChat \/ SelectSession \/ DeleteSession \/ QuickCommand
                   \/ ChatInput \/ AgentReturns \/ Interrupt]_vars
-----------------------------------------------------------------------------
(* What the claims speak of *)

Done == pc = "done"
IsSearch == req.tool \in {"search_drive", "quick_search"}

IsPrefix(s, t) == Len(s) <= Len(t) /\ SubSeq(t, 1, Len(s)) = s

\* the number of directory levels from the directory root down to directory d
LevelsBelow(plat, root, d) == Len(NodeOf(plat, d)) - Len(NodeOf(plat, root))

\* the names of the directories strictly below root on the way to directory d
NamesBelow(plat, root, d) ==
    LET n == NodeOf(plat, d) IN
    { n[k] : k \in (Len(NodeOf(plat, root)) + 1)..Len(n) }

\* the root an item of a search was found under
ItemRoots(it) ==
    IF req.tool = "search_drive" THEN {req.search_path}
    ELSE { sp \in { search_paths(platform, cwd)[k] : k \in 1..9 } :
             IsPrefix(NodeOf(platform, sp), NodeOf(platform, it.parent_directory))
             /\ IsAbs(platform, sp) }

ExclusionSet == IF req.tool = "search_drive" THEN skip_dirs ELSE quick_skip_dirs

\* C1: the total_count a search returns is the number of found_items and is
\* at most max_results (for quick_search over all its roots together).
C1_CountWithinCap ==
    (Done /\ IsSearch /\ req.max_results > 0) =>
        /\ result.total_count = Len(result.found_items)
        /\ result.total_count <= req.max_results

\* a quick_search that filled the cap while search roots were still unvisited
C1_Witness ==
    /\ Done /\ req.tool = "quick_search"
    /\ result.total_count = req.max_results
    /\ aborted = "cap" /\ roots # <<>>

\* C2: no item search_drive returns lies max_depth or more directory levels
\* below search_path.
C2_ItemsAboveMaxDepth ==
    (Done /\ req.tool = "search_drive" /\ result.success) =>
        \A k \in 1..Len(result.found_items) :
            LevelsBelow(platform, req.search_path,
                        result.found_items[k].parent_directory) < req.max_depth

\* C3: no item a search returns, and no directory between the search root
\* and the item, has a name of the exclusion set.
C3_NoExcludedName ==
    (Done /\ IsSearch /\ result.success) =>
        \A k \in 1..Len(result.found_items) :
            LET it == result.found_items[k] IN
            /\ it.name \notin ExclusionSet
            /\ \E sp \in ItemRoots(it) :
                 NamesBelow(platform, sp, it.parent_directory) \cap ExclusionSet = {}

\* the item list of a result; a dict without the key has none
ItemsOf(r) ==
    IF r.kind = "DriveSearchOutput" THEN r.found_items
    ELSE IF r.kind = "DuplicateFinderOutput" THEN r.duplicate_groups
    ELSE IF "recent_changes" \in DOMAIN r THEN r.recent_changes
    ELSE <<>>

C6_StructuredResult ==
    Done => /\ result.kind # "str"
            /\ "success" \in DOMAIN result /\ result.success \in BOOLEAN
            /\ "message" \in DOMAIN result

\* C10: a search that stopped at the result cap or at the timeout says so
\* in its result: for the cap by the "limited" note or total_count equal to
\* max_results, for the timeout by the "timed out" note.
C10_BoundedCompletionFlagged ==
    (Done /\ IsSearch /\ result.success) =>
        /\ aborted = "cap" =>
             result.message.limited \/ result.total_count = req.max_results
        /\ aborted = "timeout" => result.message.timed_out


\* the files of the directories find_duplicates listed that it could hash:
\* stat and open succeed and the size is not above the ceiling
HashableScanned ==
    { n \in UNION { { Resolve(platform, cwd, d) \o <<DirTable(Resolve(platform, cwd, d)).files[k]>> :
                        k \in 1..Len(DirTable(Resolve(platform, cwd, d)).files) } :
                    d \in scanned } :
        /\ n \notin StatErrFiles /\ n \notin UnreadableFiles
        /\ SizeOf(ContentOf(n)) <= FD_SIZE_CEILING }

MemberNodes(g) == { Resolve(platform, cwd, g.files[k].path) : k \in 1..Len(g.files) }

\* what C7 says of the groups, with Same(a, b) the likeness of two files
GroupsSound(dg, Same(_, _)) ==
    /\ \A k \in 1..Len(dg) :
         /\ dg[k].count = Len(dg[k].files)
         /\ dg[k].count >= 2
         /\ Cardinality(MemberNodes(dg[k])) = dg[k].count
         /\ \A a, b \in MemberNodes(dg[k]) : Same(a, b)
    /\ \A a, b \in HashableScanned :
         (a # b /\ ContentOf(a) = ContentOf(b)) =>
             \E k \in 1..Len(dg) : {a, b} \subseteq MemberNodes(dg[k])
    /\ \A k, l \in 1..Len(dg) :
         k # l => MemberNodes(dg[k]) \cap MemberNodes(dg[l]) = {}

SameContent(a, b) == ContentOf(a) = ContentOf(b)
SameDigest(a, b) == Md5(ContentOf(a)) = Md5(ContentOf(b))

\* C7 as stated: every reported group has count = number of files >= 2, all
\* of identical content; two hashable scanned files of identical content
\* share a group; no file is in two groups.
C7_GroupsOfIdenticalContent ==
    (Done /\ req.tool = "find_duplicates" /\ result.success) =>
        GroupsSound(result.duplicate_groups, SameContent)

\* C7 amended: the members of a group have the identical MD5 digest.
C7_GroupsOfIdenticalDigest ==
    (Done /\ req.tool = "find_duplicates" /\ result.success) =>
        GroupsSound(result.duplicate_groups, SameDigest)

\* a scan that reported a group of three files
C7_Witness ==
    /\ Done /\ req.tool = "find_duplicates" /\ result.success
    /\ \E k \in 1..Len(result.duplicate_groups) : result.duplicate_groups[k].count >= 3

\* the sum over the reported groups of (members - 1), and of
\* (members - 1) * size of one member
RECURSIVE ExtraCopies(_)
ExtraCopies(dg) ==
    IF dg = <<>> THEN 0
    ELSE (Len(Head(dg).files) - 1) + ExtraCopies(Tail(dg))

RECURSIVE ExtraBytes(_)
ExtraBytes(dg) ==
    IF dg = <<>> THEN 0
    ELSE (Len(Head(dg).files) - 1) * Head(dg).size_each + ExtraBytes(Tail(dg))

\* C8: total_duplicates is the sum over the reported groups of (members - 1)
\* and space_wasted the sum of (members - 1) * size of one member; both are
\* 0 when no group is reported.
C8_TotalsMatchGroups ==
    (Done /\ req.tool = "find_duplicates" /\ result.success) =>
        LET dg == result.duplicate_groups IN
        /\ \A k \in 1..Len(dg) :
             \E m \in 1..Len(dg[k].files) : dg[k].size_each = dg[k].files[m].size
        /\ result.total_duplicates = ExtraCopies(dg)
        /\ result.space_wasted = ExtraBytes(dg)
        /\ dg = <<>> => result.total_duplicates = 0 /\ result.space_wasted = 0

\* a scan that reported two groups, with space wasted
C8_Witness ==
    /\ Done /\ req.tool = "find_duplicates" /\ result.success
    /\ Len(result.duplicate_groups) >= 2
    /\ result.total_duplicates >= 3
    /\ result.space_wasted > 0

\* the two calls of a repeated search have both returned
Twice == Done /\ IsSearch /\ Len(history) = 1

\* C9 as stated: the second call of a search returns the found_items and
\* the total_count of the first.
C9_SameResult ==
    Twice =>
        /\ result.found_items = history[1].result.found_items
        /\ result.total_count = history[1].result.total_count

\* C9 amended: the found_items of one call are the beginning of those of the
\* other, and the two calls return the identical found_items, total_count
\* and success when neither was stopped by the timeout (quick_search has
\* none).
C9_SameUnlessTimedOut ==
    Twice =>
        LET first == history[1].result IN
        /\ \/ IsPrefix(first.found_items, result.found_items)
           \/ IsPrefix(result.found_items, first.found_items)
        /\ result.total_count = Len(result.found_items)
        /\ (aborted # "timeout" /\ history[1].aborted # "timeout") =>
             /\ result.found_items = first.found_items
             /\ result.total_count = first.total_count
             /\ result.success = first.success
        /\ req.tool = "quick_search" => result.found_items = first.found_items

\* two calls, neither timed out, that found items and report different
\* elapsed times
C9_Witness ==
    /\ Twice /\ result.success
    /\ result.found_items # <<>>
    /\ aborted # "timeout" /\ history[1].aborted # "timeout"
    /\ result.message.elapsed # history[1].result.message.elapsed

\* the names the glob pattern pat matches, by the lengths of the beginnings
\* of name that the first i characters of pat can take up
RECURSIVE GlobReach(_, _, _)
GlobReach(name, pat, i) ==
    IF i = 0 THEN {0}
    ELSE LET before == GlobReach(name, pat, i - 1) IN
         IF pat[i] = "*"
         THEN { m \in 0..Len(name) : \E r \in before : r <= m }
         ELSE { r + 1 : r \in { q \in before : q < Len(name)
                                  /\ (pat[i] = "?" \/ name[q + 1] = pat[i]) } }

GlobRef(name, pat) == Len(name) \in GlobReach(name, pat, Len(pat))

\* the reference of C4: substring or glob, of the case-normalized strings
RefNorm(cs, s) == IF cs THEN s ELSE Lower(s)
RefAccepts(cs, name, pat) ==
    \/ Contains(RefNorm(cs, name), RefNorm(cs, pat))
    \/ GlobRef(RefNorm(cs, name), RefNorm(cs, pat))

\* C4: the match predicates accept a name exactly when the case-normalized
\* pattern is a substring of the case-normalized name or matches it as a
\* glob.
C4_MatchAgreesWithReference ==
    (pc = "matched") =>
        result.accepted =
            RefAccepts(req.tool = "search_drive" /\ req.case_sensitive,
                       result.name, req.search_pattern)

\* C4 on POSIX, where fnmatch keeps the case of what it is given
C4_AgreesOnPosix ==
    (pc = "matched" /\ platform = "posix") =>
        result.accepted =
            RefAccepts(req.tool = "search_drive" /\ req.case_sensitive,
                       result.name, req.search_pattern)

\* C4's examples
C4_Examples ==
    (pc = "matched" /\ req.search_pattern = Nm.pat_txt) =>
        /\ result.name = Nm.a_txt => result.accepted
        /\ result.name = Nm.a_tx => ~result.accepted

-----------------------------------------------------------------------------
(* What the claims say of the tools that change files *)

\* the disk after the k-th call of the behaviour
After(k) == IF k = Len(history) THEN disk ELSE history[k + 1].before

\* the node a path argument of the k-th call names
ArgNode(p) == NodeOf(platform, Abspath(platform, cwd, p))

\* the destination of the k-th call, when it is one of the three tools of C11
Destination(k) ==
    IF history[k].req.tool = "create_directory" THEN ArgNode(history[k].req.path)
    ELSE ArgNode(history[k].req.path2)

Collides(k) ==
    /\ history[k].req.tool \in {"copy_file", "rename_file", "create_directory"}
    /\ Destination(k) \in DOMAIN history[k].before

\* C11 as stated: a call of copy_file, rename_file or create_directory whose
\* destination exists returns success = false with 'already exists' and
\* leaves the filesystem as it was.
C11_CollisionRejected ==
    \A k \in 1..Len(history) :
        Collides(k) =>
            /\ history[k].result.success = FALSE
            /\ history[k].result.message = "already exists"
            /\ After(k) = history[k].before

\* C11 amended: such a call returns success = false and leaves the
\* filesystem as it was; its message is 'already exists' unless the source
\* of a copy or rename is missing, which is reported instead; and a
\* directory that create_directory made exists afterwards, so that making it
\* again fails.
C11_CollisionFails ==
    \A k \in 1..Len(history) :
        LET c == history[k] IN
        /\ Collides(k) =>
             /\ c.result.success = FALSE
             /\ After(k) = c.before
             /\ IF c.req.tool = "create_directory"
                   \/ ArgNode(c.req.path) \in DOMAIN c.before
                THEN c.result.message = "already exists"
                ELSE c.result.message \in {"Source file does not exist", "does not exist"}
        /\ (c.req.tool = "create_directory" /\ c.result.success) =>
             /\ Destination(k) \in DOMAIN After(k)
             /\ After(k)[Destination(k)].kind = "dir"

\* create_directory made a directory, and the same call made again failed
C11_Witness ==
    /\ Len(history) = 2
    /\ history[1].req.tool = "create_directory" /\ history[1].result.success
    /\ history[2].req = history[1].req
    /\ history[2].result.success = FALSE
    /\ history[2].result.message = "already exists"
    /\ disk = history[2].before

\* the text the sentences of C12 give the file at node n after the first k
\* calls: the text of the last call that did not append, then a newline and
\* the text of every later call that appended (the file's first content when
\* no call has written it without appending)
RECURSIVE TextAfter(_, _)
TextAfter(n, k) ==
    IF k = 0 THEN IF n \in DOMAIN history[1].before
                  THEN history[1].before[n].data ELSE <<>>
    ELSE LET c == history[k] IN
         IF c.req.tool = "write_file" /\ c.result.success /\ ArgNode(c.req.path) = n
         THEN IF c.result.operation = "appended"
              THEN TextAfter(n, k - 1) \o <<"\n">> \o c.req.content
              ELSE c.req.content
         ELSE TextAfter(n, k - 1)

\* the bytes data hold the text: as they are, or on Windows with a carriage
\* return put before each newline (the texts written hold none themselves)
Holds(plat, data, text) ==
    IF plat = "nt"
    THEN /\ RemoveAll(data, <<"\r">>) = text
         /\ CountChar(data, "\r") = CountChar(data, "\n")
         /\ \A i \in 1..Len(data) : data[i] = "\n" => (i > 1 /\ data[i - 1] = "\r")
    ELSE data = text

\* what C12 says of the operation reported by the k-th call and of the
\* directories above the file
WriteReport(k) ==
    LET c == history[k]
        n == ArgNode(c.req.path)
        existed == n \in DOMAIN c.before
    IN  /\ c.result.operation = (IF existed /\ c.req.flag THEN "appended"
                                 ELSE IF existed THEN "overwritten" ELSE "created")
        /\ \A p \in Prefixes(Parent(n)) : p \in DOMAIN After(k) /\ After(k)[p].kind = "dir"
        /\ n \in DOMAIN After(k) /\ After(k)[n].kind = "file"

Written(k) == history[k].req.tool = "write_file" /\ history[k].result.success

\* C12 as stated: after each successful write_file the file holds exactly
\* the old content, a newline and content (appended), or exactly content
\* (overwritten, created); after any sequence of them it holds the content of
\* the last non-appending write and, for each later appending call, a newline
\* and its content.
C12_ContentAsStated ==
    \A k \in 1..Len(history) :
        Written(k) =>
            /\ WriteReport(k)
            /\ After(k)[ArgNode(history[k].req.path)].data
                 = TextAfter(ArgNode(history[k].req.path), k)

\* C12 amended: the same, the file holding that text as a text-mode write
\* stores it: unchanged on POSIX, each newline (the separating one included)
\* as carriage return and newline on Windows.
C12_ContentAsText ==
    \A k \in 1..Len(history) :
        Written(k) =>
            /\ WriteReport(k)
            /\ Holds(platform, After(k)[ArgNode(history[k].req.path)].data,
                     TextAfter(ArgNode(history[k].req.path), k))

\* a file was made in a directory that was missing, then appended to twice,
\* a text of two lines among them
C12_Witness ==
    /\ Len(history) = 3
    /\ \A k \in 1..3 : Written(k) /\ history[k].req.path = history[1].req.path
    /\ history[1].result.operation = "created"
    /\ Parent(ArgNode(history[1].req.path)) \notin DOMAIN history[1].before
    /\ history[2].result.operation = "appended"
    /\ history[3].result.operation = "appended"
    /\ history[3].req.content = <<"p", "\n", "q">>
    /\ platform = "nt"

\* the nodes of the temp directories of the platform
TempDirNodes == { NodeOf(platform, temp_dirs(platform)[i]) :
                    i \in 1..Len(temp_dirs(platform)) }

\* the name ends in a temp suffix, whatever the case of its letters
HasTempSuffix(name) ==
    \E p \in temp_patterns :
        /\ Len(name) >= Len(p)
        /\ Lower(SubSeq(name, Len(name) - Len(p) + 1, Len(name))) = p

\* the regular files directly inside a temp directory whose name ends in a
\* temp suffix and that were modified more than max_age_days days ago
Candidates(d, max_age_days) ==
    { n \in DOMAIN d :
        /\ n # <<>> /\ Parent(n) \in TempDirNodes
        /\ d[n].kind = "file"
        /\ HasTempSuffix(n[Len(n)])
        /\ d[n].age > 24 * max_age_days }

Cleaned(k) == history[k].req.tool = "cleanup_temp_files"

\* C13: cleanup_temp_files with delete_files=False leaves every file and
\* every content as it was and only lists the candidates; with
\* delete_files=True it removes only regular files directly inside a temp
\* directory whose name ends in a temp suffix and that are older than
\* max_age_days (each of them, unless the system refuses), and changes
\* nothing else.  (A temp directory named twice in temp_dirs is listed twice,
\* so the listing may name a candidate more than once.)
C13_OnlyOldTempFilesRemoved ==
    \A k \in 1..Len(history) :
        Cleaned(k) =>
            LET c == history[k]
                cand == Candidates(c.before, c.req.days)
                gone == DOMAIN c.before \ DOMAIN After(k)
            IN  /\ c.result.success
                /\ \A n \in DOMAIN After(k) :
                       n \in DOMAIN c.before /\ After(k)[n] = c.before[n]
                /\ gone \subseteq cand
                /\ IF c.req.flag
                   THEN /\ \A n \in cand \ gone : n[Len(n)] \in UndeletableNames
                        /\ c.result.total_processed = Cardinality(gone)
                        /\ { c.result.processed_files[i] :
                               i \in 1..Len(c.result.processed_files) }
                             = { n[Len(n)] : n \in gone }
                   ELSE /\ gone = {}
                        /\ { c.result.processed_files[i] :
                               i \in 1..Len(c.result.processed_files) }
                             = { n[Len(n)] : n \in cand }

\* a listing call removed nothing and named the old temp files; the deleting
\* call after it, with the same age, removed them and left the recent file,
\* the file of another suffix, the directory and the file below it
C13_Witness ==
    /\ Len(history) = 2
    /\ Cleaned(1) /\ ~history[1].req.flag /\ history[1].req.days = 7
    /\ history[1].result.total_processed > 0
    /\ history[2].before = history[1].before
    /\ Cleaned(2) /\ history[2].req.flag /\ history[2].req.days = 7
    /\ \A t \in TempDirNodes :
          /\ Append(t, Nm.old_tmp) \notin DOMAIN disk
          /\ Append(t, Nm.OLD_LOG) \notin DOMAIN disk
          /\ Append(t, Nm.new_tmp) \in DOMAIN disk
          /\ Append(t, Nm.old_txt) \in DOMAIN disk
          /\ Append(t, Nm.locked_bak) \in DOMAIN disk
          /\ t \o <<Nm.d_tmp, Nm.in_tmp>> \in DOMAIN disk

-----------------------------------------------------------------------------
(* What the claims say of the scans and the filesystem *)

ScanTools == {"search_drive", "quick_search", "find_duplicates", "monitor_directory",
              "file_stats"}

\* C14: the scanning tools only read the filesystem: at every step of a call
\* of search_drive, quick_search, find_duplicates, monitor_directory or
\* file_stats, and after it, successful or failed, the files, the
\* directories and every file's content are those the call began with.
C14_ScansOnlyRead == req.tool \in ScanTools => disk = TreeDisk

\* find_duplicates opened and hashed files, found duplicates among them,
\* and the filesystem is as it was
C14_Witness ==
    /\ Done /\ req.tool = "find_duplicates"
    /\ result.success /\ result.total_duplicates > 0
    /\ disk = TreeDisk

-----------------------------------------------------------------------------
(* What the claims say of two calls made at once *)

\* both calls that were made together have returned
BothDone == Len(history) = 2 /\ pc = "done" /\ other.pc = "done"

\* the two calls, each with the result and the ghost of its run together
\* and of its run alone
PairRuns ==
    { [together |-> l, alone |-> CHOOSE h \in {history[1], history[2]} : h.req = NotBegun(l.req).req] :
        l \in {Locals, other} }

\* C15 as stated: under every interleaving each of two calls made together
\* returns the items it returns when made alone.
C15_SameAsAlone ==
    BothDone => \A r \in PairRuns :
                    ItemsOf(r.together.result) = ItemsOf(r.alone.result)

\* C15 amended: the same, unless the call made together ran into its
\* timeout: the clock is the one thing the calls share, and the time a call
\* spends suspended counts against it.
C15_SameAsAloneInTime ==
    BothDone => \A r \in PairRuns :
                    r.together.aborted # "timeout" =>
                        /\ ItemsOf(r.together.result) = ItemsOf(r.alone.result)
                        /\ r.together.result.success = r.alone.result.success

\* two searches of overlapping trees ran together to their caps, and each
\* holds an item that the other does not
C15_Witness ==
    /\ BothDone
    /\ req.tool = "search_drive" /\ other.req.tool = "search_drive"
    /\ req.search_pattern # other.req.search_pattern
    /\ aborted # "timeout" /\ other.aborted # "timeout"
    /\ Len(found_items) = MaxResults /\ Len(other.found_items) = MaxResults
    /\ \E i \in 1..MaxResults : \A j \in 1..MaxResults : found_items[i] # other.found_items[j]
    /\ \E j \in 1..MaxResults : \A i \in 1..MaxResults : found_items[i] # other.found_items[j]

-----------------------------------------------------------------------------
(* What the claims say of the traversal *)

\* C16: monitor_directory runs on the bounded skeleton of search_drive; in
\* particular it enters no directory that is excluded or hidden, nor any
\* directory below one.
C16_MonitorPrunes ==
    req.tool = "monitor_directory" =>
        \A d \in scanned :
            \A name \in NamesBelow(platform, req.search_path, d) :
                name \notin skip_dirs /\ ~StartsWith(name, <<".">>)

\* the walk of a search is at a directory
AtDirectory == IsSearch /\ pc \notin {"idle", "done"} /\ stack # <<>>

\* C17: the depth a search computes for the directory the walk is at is
\* the number of directory levels between search_path and that directory,
\* and search_drive lists no directory more than max_depth levels below
\* search_path.
C17_DepthIsLevels ==
    /\ AtDirectory =>
         (IF req.tool = "search_drive"
          THEN SD_Depth(platform, CurRoot(stack), req.search_path)
          ELSE QS_Depth(platform, CurRoot(stack), req.search_path))
           = LevelsBelow(platform, req.search_path, CurRoot(stack))
    /\ req.tool = "search_drive" =>
         \A d \in scanned : LevelsBelow(platform, req.search_path, d) <= req.max_depth

\* the directory d is, or lies below, a child directory that the filter of
\* the search removes: a directory strictly below one of the search roots
\* whose name is in the exclusion set or begins with '.'
InPruned(d) ==
    \A sp \in ItemRoots([parent_directory |-> d]) :
        \E name \in NamesBelow(platform, sp, d) :
            name \in ExclusionSet \/ StartsWith(name, <<".">>)

\* C18: a child directory whose name is in the exclusion set or begins with
\* '.' is removed before the recursion and before the folder matching: at
\* no step of a search has such a directory been emitted as a folder item,
\* nor has it, or a directory below it, been listed, nor has an entry of
\* its subtree been emitted.
C18_PrunedNeverVisited ==
    IsSearch =>
        /\ \A d \in scanned : ~InPruned(d)
        /\ \A k \in 1..Len(found_items) :
              /\ ~InPruned(found_items[k].parent_directory)
              /\ found_items[k].type = "folder" =>
                    /\ found_items[k].name \notin ExclusionSet
                    /\ ~StartsWith(found_items[k].name, <<".">>)

\* a search of the whole tree ran to its end: it listed the directory a,
\* whose children .git and node_modules it did not list, and found items
C18_Witness ==
    /\ Done /\ req.tool = "search_drive" /\ aborted = "none"
    /\ req.search_path = PathStr(platform, <<>>)
    /\ PathStr(platform, <<Nm.a>>) \in scanned
    /\ PathStr(platform, <<Nm.a, Nm.a>>) \in scanned
    /\ PathStr(platform, <<Nm.a, Nm.git>>) \notin scanned
    /\ PathStr(platform, <<Nm.a, Nm.node_modules>>) \notin scanned
    /\ found_items # <<>>

\* the cap of the search that is running has been reached
CapReached == IsSearch /\ pc \notin {"idle", "done"} /\ count >= req.max_results

\* C19: once the number of collected items has reached max_results, no
\* further item is emitted and no further directory is listed before the
\* call returns.
C19_NothingAfterCap ==
    [][CapReached => (found_items' = found_items /\ scanned' = scanned)]_vars

\* the timeout of the search that is running has elapsed
TimeoutElapsed == IsSearch /\ pc \notin {"idle", "done"} /\ now - start_time >= timeout

\* C20: once the time elapsed since the start of the request has reached
\* the timeout, no further candidate is emitted and no further directory is
\* listed before the call returns.
C20_NothingAfterTimeout ==
    [][TimeoutElapsed => (found_items' = found_items /\ scanned' = scanned)]_vars

-----------------------------------------------------------------------------
(* The kinds of the items *)

\* the kinds search_type permits
KindsOf(stype) ==
    IF stype = "files" THEN {"file"}
    ELSE IF stype = "folders" THEN {"folder"}
    ELSE {"file", "folder"}

\* C23: every item a search returns has a kind its search_type permits, a
\* file item names a file and carries size_bytes, a folder item names a
\* directory and carries no size_bytes.
C23_KindsFollowSearchType ==
    (Done /\ IsSearch /\ result.success
          /\ req.search_type \in {"files", "folders", "both"}) =>
        \A k \in 1..Len(result.found_items) :
            LET it == result.found_items[k]
                n == Resolve(platform, cwd, it.path)
            IN  /\ it.type \in KindsOf(req.search_type)
                /\ it.type = "file" =>
                     n \in FileNodes /\ "size_bytes" \in DOMAIN it
                /\ it.type = "folder" =>
                     n \in DirNodes /\ "size_bytes" \notin DOMAIN it

\* a search for both kinds that returned a folder and a file
C23_Witness ==
    /\ Done /\ IsSearch /\ req.search_type = "both"
    /\ \E j, k \in 1..Len(result.found_items) :
         /\ result.found_items[j].type = "folder"
         /\ result.found_items[k].type = "file"
         /\ "size_bytes" \in DOMAIN result.found_items[k]

-----------------------------------------------------------------------------
(* Letter case in the predicate of search_drive *)

\* the strings that differ from s in the case of one letter
CaseChanged(s) ==
    LET Capitals == {"A", "B", "C", "D", "E", "F", "G", "H", "I", "J", "K", "L", "M",
                     "N", "O", "P", "Q", "R", "S", "T", "U", "V", "W", "X", "Y", "Z"}
        Swap(c) == IF LowerChar(c) # c THEN LowerChar(c)
                   ELSE IF \E u \in Capitals : LowerChar(u) = c
                        THEN CHOOSE u \in Capitals : LowerChar(u) = c
                        ELSE c
    IN  { [s EXCEPT ![i] = Swap(s[i])] : i \in 1..Len(s) } \ {s}

\* without case_sensitive, changing the case of a letter of the name or of
\* the pattern leaves the answer of the predicate as it is
C24_InsensitiveIgnoresCase ==
    (pc = "matched" /\ req.tool = "search_drive" /\ ~req.case_sensitive) =>
        /\ \A n \in CaseChanged(result.name) :
             should_include_item(platform, req, n, FALSE) = result.accepted
        /\ \A p \in CaseChanged(req.search_pattern) :
             should_include_item(platform, [req EXCEPT !.search_pattern = p],
                                 result.name, FALSE) = result.accepted

\* with case_sensitive, an accepted name holds the pattern or matches it as
\* a glob letter for letter
C24_SensitiveKeepsCase ==
    (pc = "matched" /\ req.tool = "search_drive" /\ req.case_sensitive
       /\ result.accepted) =>
        \/ Contains(result.name, req.search_pattern)
        \/ GlobRef(result.name, req.search_pattern)

\* C24: search_drive ignores letter case when case_sensitive is false and
\* matches with exactly the same letter case when it is true.
C24_CaseFollowsFlag == C24_InsensitiveIgnoresCase /\ C24_SensitiveKeepsCase

-----------------------------------------------------------------------------
(* What cleanup_temp_files reports *)

\* how often the name occurs in the list
Occurrences(list, name) == Cardinality({ i \in 1..Len(list) : list[i] = name })

\* the files of the set that have the name
Named(nodes, name) == { n \in nodes : n[Len(n)] = name }

\* C30: cleanup_temp_files names each file once: processed_files names a
\* file name no more often than there are files of that name listed or
\* deleted, total_processed is the number of those files, and failed_files
\* names a file whose deletion failed once.
C30_EachFileOnce ==
    \A k \in 1..Len(history) :
        Cleaned(k) =>
            LET c == history[k]
                cand == Candidates(c.before, c.req.days)
                gone == DOMAIN c.before \ DOMAIN After(k)
                reported == IF c.req.flag THEN gone ELSE cand
            IN  /\ \A i \in 1..Len(c.result.processed_files) :
                     LET name == c.result.processed_files[i] IN
                     Occurrences(c.result.processed_files, name)
                         <= Cardinality(Named(reported, name))
                /\ c.result.total_processed = Cardinality(reported)
                /\ \A n \in cand \ gone :
                     c.req.flag =>
                       Occurrences(c.result.failed_files, n[Len(n)])
                           = Cardinality(Named(cand \ gone, n[Len(n)]))

-----------------------------------------------------------------------------
(* The paths quick_search reports *)

\* C25: quick_search reports each path once: no two of its found_items have
\* the same path, and total_count is the number of paths found.
C25_EachPathOnce ==
    (Done /\ req.tool = "quick_search" /\ result.success) =>
        LET items == result.found_items IN
        /\ \A j, k \in 1..Len(items) : j # k => items[j].path # items[k].path
        /\ result.total_count = Cardinality({ items[k].path : k \in 1..Len(items) })

-----------------------------------------------------------------------------
(* Entries the system refuses *)

\* what a result reports, the nodes of a faulted directory named as those of
\* its twin: the items of a search in order, the groups of duplicates, the
\* changes in order
Reported(r) ==
    IF r.kind = "DriveSearchOutput"
    THEN [ k \in 1..Len(r.found_items) |->
             << TwinOf(NodeOf(platform, r.found_items[k].path)), r.found_items[k].type >> ]
    ELSE IF r.kind = "DuplicateFinderOutput"
    THEN << { { TwinOf(NodeOf(platform, g.files[i].path)) : i \in 1..Len(g.files) } :
                g \in { r.duplicate_groups[k] : k \in 1..Len(r.duplicate_groups) } },
            r.total_duplicates >>
    ELSE [ k \in 1..Len(r.recent_changes) |->
             TwinOf(NodeOf(platform, r.recent_changes[k].path)) ]

\* both calls are done, and neither search ran into the timeout
TwinDone ==
    /\ Len(history) = 1 /\ pc = "done"
    /\ aborted # "timeout" /\ history[1].aborted # "timeout"

\* the directory the first call scanned
FaultedDir ==
    IF history[1].req.tool = "quick_search" THEN NodeOf(platform, history[1].cwd)
    ELSE NodeOf(platform, history[1].req.given_path)

\* the files of each directory a search tests: files[:100], files[:50]
SliceOf(tool) == IF tool = "search_drive" THEN SD_FILE_SLICE
                 ELSE IF tool = "quick_search" THEN QS_FILE_SLICE ELSE 0

\* a search whose faulted directory lists more files than the search tests
Overfull ==
    /\ SliceOf(history[1].req.tool) > 0
    /\ Len(DirTable(FaultedDir).files) > SliceOf(history[1].req.tool)

-----------------------------------------------------------------------------
(* The files of a directory a search tests *)

\* the place of a name in a listing
PlaceIn(names, name) == CHOOSE i \in 1..Len(names) : names[i] = name

\* the directory a search began in: search_path, or the working directory
StartDir ==
    IF req.tool = "quick_search" THEN NodeOf(platform, cwd)
    ELSE NodeOf(platform, req.given_path)

\* C22: a search returns no file that stands after the first N files of its
\* directory's listing (N = 100 for search_drive, 50 for quick_search); a
\* directory name is returned whatever its place among the directories.
C22_OnlyFirstFilesTested ==
    IsSearch =>
        /\ \A k \in 1..Len(found_items) :
             LET it == found_items[k]
                 listing == DirTable(NodeOf(platform, it.parent_directory))
             IN  it.type = "file" => PlaceIn(listing.files, it.name) <= SliceOf(req.tool)
        /\ (Done /\ aborted # "timeout" /\ StartDir = <<Nm.a, Nm.node_modules, Nm.wide>>
              /\ req.search_pattern = Nm.pat_a) =>
             \E k \in 1..Len(result.found_items) :
                 LET it == result.found_items[k] IN
                 /\ it.type = "folder"
                 /\ PlaceIn(DirTable(StartDir).dirs, it.name) > SD_FILE_SLICE

\* search_drive for '*.txt' in big, up to two results: it ends with one, not
\* cut short, and a.txt, the file after the first hundred, is not returned
C22_Witness ==
    /\ Done /\ req.tool = "search_drive" /\ StartDir = <<Nm.a, Nm.node_modules, Nm.big>>
    /\ req.search_pattern = Nm.pat_txt /\ req.max_results = 2
    /\ aborted = "none" /\ result.total_count = 1
    /\ PlaceIn(DirTable(StartDir).files, Nm.a_txt) = SD_FILE_SLICE + 1

-----------------------------------------------------------------------------
(* Backups *)

\* the calls of backup_file that succeeded
Backups == { k \in 1..Len(history) :
               history[k].req.tool = "backup_file" /\ history[k].result.success }

\* C26: a successful backup_file makes a file that was not there and leaves
\* every file that was there as it was; after n successful backups there
\* are n backup files.
C26_BackupIsNew ==
    /\ \A k \in Backups :
         LET c == history[k]
             bk == NodeOf(platform, c.result.backup_file)
         IN  /\ bk \notin DOMAIN c.before
             /\ bk \in DOMAIN After(k)
             /\ \A n \in DOMAIN c.before :
                  n \in DOMAIN After(k) /\ After(k)[n] = c.before[n]
    /\ Cardinality({ NodeOf(platform, history[k].result.backup_file) : k \in Backups })
         = Cardinality(Backups)

-----------------------------------------------------------------------------
(* C29: copy_file and rename_file under concurrent calls *)

\* the calls of copy_file and rename_file that have returned success
Moved == { k \in 1..Len(history) :
             /\ history[k].req.tool \in {"copy_file", "rename_file"}
             /\ history[k].result.success }

\* C29: copy_file and rename_file never overwrite or replace an existing
\* destination, also when another call runs at the same time: of two calls
\* with the same destination at most one reports success, and no content
\* that was at the destination when the copy or the rename was made is lost.
C29_NeverReplaces ==
    /\ \A k \in Moved :
         LET dst == ArgNode(history[k].req.path2) IN
         DExists(history[k].before, dst)
           => /\ DExists(After(k), dst)
              /\ After(k)[dst] = history[k].before[dst]
    /\ \A j, k \in Moved :
         ArgNode(history[j].req.path2) = ArgNode(history[k].req.path2) => j = k

-----------------------------------------------------------------------------
(* C27: the current session of the chat UI *)

\* the events that deleted the session that was current, and another one
DeletedCurrent == { k \in 1..Len(history) :
                      /\ history[k].event = "delete"
                      /\ history[k].session_id = history[k].before.current_session_id }

DeletedOther == { k \in 1..Len(history) :
                    /\ history[k].event = "delete"
                    /\ history[k].session_id # history[k].before.current_session_id }

\* C27: after any sequence of New Chat, select, delete and quick-command
\* events in one browser session, current_session_id is None or the id of a
\* session in sessions that has an entry in messages; deleting the current
\* session sets current_session_id to None; deleting another session leaves
\* current_session_id and the messages of the other sessions as they were.
C27_CurrentSessionExists ==
    /\ \/ session_state.current_session_id = "None"
       \/ /\ session_state.current_session_id \in DOMAIN session_state.sessions
          /\ session_state.current_session_id \in DOMAIN session_state.messages
    /\ \A k \in DeletedCurrent : history[k].after.current_session_id = "None"
    /\ \A k \in DeletedOther :
         /\ history[k].after.current_session_id = history[k].before.current_session_id
         /\ \A o \in DOMAIN history[k].before.messages \ {history[k].session_id} :
              /\ o \in DOMAIN history[k].after.messages
              /\ history[k].after.messages[o] = history[k].before.messages[o]

\* a session was deleted while another, which has messages, was current, and
\* then the current one was deleted
C27_Witness ==
    /\ \E k \in DeletedOther :
         LET b == history[k].before IN
         /\ b.current_session_id # "None"
         /\ b.messages[b.current_session_id] # <<>>
    /\ DeletedCurrent # {}

-----------------------------------------------------------------------------
(* C28: the messages of a session *)

\* C28: every user message appended to the messages of a session is followed
\* by exactly one assistant message before a further user message is
\* appended, so the messages of each session alternate user, assistant.
C28_Alternates ==
    \A s \in DOMAIN session_state.messages :
       \A i \in 1..Len(session_state.messages[s]) :
          session_state.messages[s][i].role
            = IF i % 2 = 1 THEN "user" ELSE "assistant"
====
